---------------------------- MODULE Spec2Model ----------------------------
(***************************************************************************)
(* Model of the deduplication pipeline of dawitel/alchemy-webhook:         *)
(*   - cache/memory.go   MemoryCache (TTL map, optional LRU, sweeper)      *)
(*   - cache/redis.go    RedisCache  (remote store, calls may fail)        *)
(*   - cache/noop.go     NoOpCache                                         *)
(*   - eth/backfill.go   Processor.ProcessActivity                         *)
(*   - solana/processor.go Processor.ProcessTransaction                    *)
(*                                                                         *)
(* Goroutines are modelled as threads; one atomic step is one critical     *)
(* section of the cache mutex (or one call out to the handler).            *)
(* IsProcessed releases its read lock before it takes the write lock, so   *)
(* it is two steps: the read phase and the write phase.                    *)
(***************************************************************************)
EXTENDS Integers, Sequences, FiniteSets, TLC

(***************************************************************************)
(* Bounds of the model.                                                    *)
(***************************************************************************)
MaxTime == 2
MaxCap == 2
MaxTTL == 1
MaxCalls == 2

Threads == {"t1", "t2"}

\* keys used by direct callers of the cache
CacheKeys == {<<"A">>, <<"B">>, <<"C">>}

\* ttl arguments of direct MarkProcessed calls (time.Duration, in clock ticks)
TTLs == 1..MaxTTL

VARIABLES
    entries,      \* MemoryCache.entries: key -> expiry time
    accessOrder,  \* MemoryCache.accessOrder
    maxSize,      \* MemoryCache.maxSize
    enableLRU,    \* MemoryCache.enableLRU
    now,          \* time.Now(), in clock ticks
    pc,           \* per goroutine: where it stands
    job,          \* per goroutine: the call it is executing
    ret,          \* what the Process* call that returned last returned
    cres,         \* per goroutine: what its IsProcessed call reports
    hres,         \* per goroutine: what the handler returned in this call
    cacheType,    \* Processor.cache: "memory", "redis", "noop" or "nil"
    redis,        \* the remote store: key -> expiry time
    handlerSet,   \* whether Processor.handler is non-nil
    handled,      \* what the handler was called with (observation)
    calls,        \* how many Process* calls were started
    overlap,      \* whether a Process* call ever started while another ran (observation)
    last,         \* the most recent cache step (observation)
    recency,      \* stored keys ordered by their latest completed touch (observation)
    hook,         \* the webhook Handler and, per goroutine, the request it is serving
    client,       \* BaseClient: started, ctx, the goroutine Start launched
    bg,           \* MemoryCache.cleanup, MemoryCache.stop and the cleanupExpired goroutine
    retry,        \* WebhookManager.cfg.Retry and one run of executeWithRetry
    fill          \* a Backfill instance and, per goroutine, its Backfill call

cacheVars == <<entries, accessOrder, maxSize, enableLRU>>
threadVars == <<pc, job, cres, hres, ret>>
procVars == <<cacheType, redis, handlerSet, handled, calls, overlap>>
sideVars == <<client, bg, retry, fill>>
vars == <<entries, accessOrder, maxSize, enableLRU, now, pc, job, cres, hres, ret,
          cacheType, redis, handlerSet, handled, calls, overlap, last, recency,
          hook, client, bg, retry, fill>>

(***************************************************************************)
(* Helpers on sequences.                                                   *)
(***************************************************************************)
Range(s) == {s[i] : i \in 1..Len(s)}

RECURSIVE SelectIn(_, _)
SelectIn(s, S) ==
    IF s = <<>> THEN <<>>
    ELSE IF Head(s) \in S THEN <<Head(s)>> \o SelectIn(Tail(s), S)
         ELSE SelectIn(Tail(s), S)

\* time.Time.After
After(a, b) == a > b

\* delete(c.entries, key)
MapDelete(m, k) == [x \in (DOMAIN m) \ {k} |-> m[x]]

\* mutant of MapSet: the assignment is lost
MapSet_Dropped(m, k, v) == m

\* c.entries[key] = v
MapSet(m, k, v) == [x \in (DOMAIN m) \cup {k} |-> IF x = k THEN v ELSE m[x]]

(***************************************************************************)
(* MemoryCache.removeFromAccessOrder: drops the first occurrence.          *)
(***************************************************************************)
RECURSIVE removeFromAccessOrder(_, _)
removeFromAccessOrder(order, txHash) ==
    IF order = <<>> THEN <<>>
    ELSE IF Head(order) = txHash THEN Tail(order)
         ELSE <<Head(order)>> \o removeFromAccessOrder(Tail(order), txHash)

(***************************************************************************)
(* MemoryCache.updateAccessOrder                                           *)
(***************************************************************************)
updateAccessOrder(order, txHash) ==
    Append(removeFromAccessOrder(order, txHash), txHash)


\* mutant of ExpiresAt: the ttl is subtracted
ExpiresAt_Subtracted(t, ttl) == t - ttl

(***************************************************************************)
(* expiresAt := time.Now().Add(ttl)                                        *)
(***************************************************************************)
ExpiresAt(t, ttl) == t + ttl

\* mutant of Expired: the comparison is the wrong way round
Expired_Swapped(expiresAt, t) == After(expiresAt, t)

(***************************************************************************)
(* time.Now().After(expiresAt)                                             *)
(***************************************************************************)
Expired(expiresAt, t) == After(t, expiresAt)

\* the entries of m that are expired at time t
ExpiredKeys(m, t) == {k \in DOMAIN m : Expired(m[k], t)}

\* mutant of NonLRUVictims: any entry, expired or not
NonLRUVictims_Any(m, t) == DOMAIN m

(***************************************************************************)
(* The keys the capacity branch of MarkProcessed may delete in non-LRU     *)
(* mode.  Go iterates a map in an unspecified order: the first loop stops  *)
(* at the first expired entry it meets, the fallback loop at the first     *)
(* entry of any kind.                                                      *)
(***************************************************************************)
NonLRUVictims(m, t) ==
    IF ExpiredKeys(m, t) # {} THEN ExpiredKeys(m, t) ELSE DOMAIN m

(***************************************************************************)
(* The capacity branch of MarkProcessed: the (entries, accessOrder) pairs  *)
(* it can leave behind.                                                    *)
(***************************************************************************)
AfterEviction(m, order, cap, lru, t) ==
    IF Cardinality(DOMAIN m) >= cap
    THEN IF lru
         THEN IF Len(order) > 0
              THEN {<<MapDelete(m, Head(order)), Tail(order)>>}
              ELSE {<<m, order>>}
         ELSE IF DOMAIN m # {}
              THEN {<<MapDelete(m, v), order>> : v \in NonLRUVictims(m, t)}
              ELSE {<<m, order>>}
    ELSE {<<m, order>>}

(***************************************************************************)
(* MemoryCache.MarkProcessed, one critical section: the (entries,          *)
(* accessOrder) pairs it can produce.                                      *)
(***************************************************************************)
MarkProcessedResults(m, order, cap, lru, t, txHash, ttl) ==
    {<<MapSet(ev[1], txHash, ExpiresAt(t, ttl)),
       IF lru THEN updateAccessOrder(ev[2], txHash) ELSE ev[2]>> :
        ev \in AfterEviction(m, order, cap, lru, t)}


(***************************************************************************)
(* Observation of cache steps.                                             *)
(***************************************************************************)
NoKey == <<>>
NoStep == [op |-> "none", key |-> NoKey, exp |-> 0, res |-> FALSE, afterMark |-> FALSE]

Step(op, k, exp, res, am) ==
    [op |-> op, key |-> k, exp |-> exp, res |-> res, afterMark |-> am]

\* stored keys, least recently touched first
Touched(rec, k, m) == SelectIn(Append(removeFromAccessOrder(rec, k), k), DOMAIN m)

NoJob == [kind |-> "none", key |-> NoKey, in |-> 0, ctx |-> "none"]
CacheJob(k) == [kind |-> "cache", key |-> k, in |-> 0, ctx |-> "live"]

\* no request body, no request, a goroutine that serves no request, no Handler
NoBody == [size |-> 0, json |-> "none", items |-> <<>>]
NoRequest == [method |-> "none", body |-> NoBody, signature |-> <<>>]
NoConn == [req |-> NoRequest, pending |-> <<>>, serving |-> FALSE]
NoHook == [secret |-> "", maxBodySize |-> 0, chainType |-> "none",
           conn |-> [t \in Threads |-> NoConn], status |-> 0]

\* no client: its fields, the result of its last call, the goroutine of Start
NoClient == [cache |-> "none", started |-> FALSE, ctx |-> "none", parent |-> "none",
             delayed |-> FALSE, starter |-> "none", res |-> "none", ops |-> 0]

\* no sweeper: the ticker, its channel, the stop channel, the goroutine, and
\* what was observed of Close
NoSweeper == [cleanup |-> "none", tick |-> FALSE, stop |-> "none", pc |-> "none",
              closes |-> 0, panicked |-> FALSE, lateSweeps |-> 0]

\* no retry configuration and no run
NoRetry == [MaxAttempts |-> 0, InitialDelay |-> 0, MaxDelay |-> 0, Multiplier |-> 0,
            pc |-> "none", attempt |-> 0, delay |-> 0, fnCalls |-> 0, fnOk |-> FALSE,
            afterOk |-> FALSE, waits |-> <<>>, ctx |-> "none", cancelledAt |-> 0,
            res |-> "none"]

\* no block range: nothing is queried
NoRange == [fromBlock |-> <<0, 0, 0, 0>>, toBlock |-> <<0, 0, 0, 0>>,
            currentBlock |-> <<0, 0, 0, 0>>, skip |-> TRUE]

\* a goroutine that is in no Backfill call
NoCall == [pc |-> "idle", addrs |-> 0, items |-> <<>>, ctx |-> "none", res |-> "none",
           range |-> NoRange, fetches |-> 0]

\* no Backfill instance
NoFill == [chain |-> "none", ready |-> FALSE, backfilling |-> 0,
           call |-> [t \in Threads |-> NoCall], runs |-> 0]

InitSide == client = NoClient /\ bg = NoSweeper /\ retry = NoRetry /\ fill = NoFill

\* where a goroutine continues when its IsProcessed call returns
AfterIsProcessed(j) ==
    IF j.kind = "cache" THEN "idle"
    ELSE IF j.kind = "fill" THEN "prechecked"
    ELSE "checked"

(***************************************************************************)
(* The goroutine t, at work on j, moves on inside IsProcessed(j.key): to    *)
(* the write phase ("isDel", "isTouch") or back to its caller ("return")   *)
(* with the value the call reports.  A direct caller keeps nothing once    *)
(* the call is over.                                                       *)
(***************************************************************************)
IsProcessedReturns(t, next, j, hit) ==
    LET direct == j.kind = "cache"
    IN  /\ pc' = [pc EXCEPT ![t] = IF next = "return" THEN AfterIsProcessed(j) ELSE next]
        /\ job' = [job EXCEPT ![t] = IF direct /\ next = "return" THEN NoJob ELSE j]
        /\ cres' = [cres EXCEPT ![t] =
                      IF direct THEN "none" ELSE IF hit THEN "true" ELSE "false"]

(***************************************************************************)
(* MemoryCache.IsProcessed, read phase (under RLock): the lookup and the   *)
(* expiry test.  A miss returns here; so does a hit when LRU is off.       *)
(***************************************************************************)
MemIsProcessedRead(t, j) ==
    LET txHash == j.key
        exists == txHash \in DOMAIN entries
        expired == exists /\ Expired(entries[txHash], now)
        hit == exists /\ ~expired
    IN  /\ IsProcessedReturns(t, IF expired THEN "isDel"
                                 ELSE IF hit /\ enableLRU THEN "isTouch"
                                 ELSE "return",
                              j, hit)
        /\ last' = Step("isRead", txHash, 0, hit,
                        last.op = "mark" /\ last.key = txHash /\ now <= last.exp)
        /\ UNCHANGED <<cacheVars, recency, now>>

(***************************************************************************)
(* MemoryCache.IsProcessed, write phase after an expired entry was seen    *)
(* (under Lock): delete the key and drop it from the access order.         *)
(***************************************************************************)
MemIsProcessedDelete(t) ==
    /\ pc[t] = "isDel"
    /\ entries' = MapDelete(entries, job[t].key)
    /\ accessOrder' = IF enableLRU
                       THEN removeFromAccessOrder(accessOrder, job[t].key)
                       ELSE accessOrder
    /\ recency' = SelectIn(recency, DOMAIN entries')
    /\ IsProcessedReturns(t, "return", job[t], FALSE)
    /\ last' = Step("isDel", NoKey, 0, FALSE, FALSE)
    /\ UNCHANGED <<maxSize, enableLRU, now, hres, ret, procVars, hook, sideVars>>

(***************************************************************************)
(* MemoryCache.IsProcessed, write phase after a live entry was seen in LRU *)
(* mode (under Lock): updateAccessOrder.                                   *)
(***************************************************************************)
MemIsProcessedTouch(t) ==
    /\ pc[t] = "isTouch"
    /\ accessOrder' = updateAccessOrder(accessOrder, job[t].key)
    /\ recency' = Touched(recency, job[t].key, entries)
    /\ IsProcessedReturns(t, "return", job[t], TRUE)
    /\ last' = Step("isTouch", NoKey, 0, FALSE, FALSE)
    /\ UNCHANGED <<entries, maxSize, enableLRU, now, hres, ret, procVars, hook, sideVars>>

(***************************************************************************)
(* MemoryCache.MarkProcessed (one critical section under Lock).            *)
(***************************************************************************)
MemMarkProcessed(txHash, ttl) ==
    /\ \E r \in MarkProcessedResults(entries, accessOrder, maxSize, enableLRU,
                                      now, txHash, ttl) :
          /\ entries' = r[1]
          /\ accessOrder' = r[2]
    /\ recency' = IF enableLRU THEN Touched(recency, txHash, entries') ELSE recency
    /\ last' = Step("mark", txHash, now + ttl, FALSE, FALSE)
    /\ UNCHANGED <<maxSize, enableLRU, now>>

(***************************************************************************)
(* MemoryCache.cleanupExpired: one firing of the ticker.                   *)
(***************************************************************************)
SweepEntries ==
    /\ cacheType = "memory"
    /\ entries' = [k \in (DOMAIN entries) \ ExpiredKeys(entries, now) |-> entries[k]]
    /\ accessOrder' = IF enableLRU
                       THEN SelectIn(accessOrder, Range(accessOrder) \ ExpiredKeys(entries, now))
                       ELSE accessOrder
    /\ recency' = SelectIn(recency, DOMAIN entries')
    /\ last' = Step("sweep", NoKey, 0, FALSE, FALSE)
    /\ UNCHANGED <<maxSize, enableLRU, now, threadVars, procVars, hook>>

\* a sweep, in the specifications that leave the ticker and Close out
cleanupExpired == SweepEntries /\ UNCHANGED sideVars

\* the clock advances; the remote store drops the keys whose time to live is over
\* the expiry of a key that the remote store keeps until it is overwritten
NoExpiry == 0 - 1

Tick ==
    /\ now < MaxTime
    /\ now' = now + 1
    /\ redis' = [k \in {x \in DOMAIN redis : redis[x] = NoExpiry \/ now + 1 < redis[x]}
                    |-> redis[k]]
    /\ UNCHANGED <<cacheVars, threadVars, cacheType, handlerSet, handled, calls,
                   overlap, last, recency, hook, sideVars>>

(***************************************************************************)
(* A goroutine that uses the cache directly.                               *)
(***************************************************************************)
CallIsProcessed(t, k) ==
    /\ pc[t] = "idle"
    /\ MemIsProcessedRead(t, CacheJob(k))
    /\ UNCHANGED <<hres, ret, procVars, hook, sideVars>>

CallMarkProcessed(t, k, ttl) ==
    /\ pc[t] = "idle"
    /\ MemMarkProcessed(k, ttl)
    /\ UNCHANGED <<threadVars, procVars, hook, sideVars>>

(***************************************************************************)
(* NewMemoryCache, for every maxSize and either eviction mode.             *)
(***************************************************************************)
NewMemoryCache(size, lru) ==
    /\ entries = <<>>
    /\ accessOrder = <<>>
    /\ maxSize = size
    /\ enableLRU = lru

InitThreads ==
    /\ pc = [t \in Threads |-> "idle"]
    /\ job = [t \in Threads |-> NoJob]
    /\ cres = [t \in Threads |-> "none"]
    /\ hres = [t \in Threads |-> "none"]
    /\ ret = "none"

InitCache ==
    /\ \E size \in 0..MaxCap, lru \in BOOLEAN : NewMemoryCache(size, lru)
    /\ now = 0
    /\ InitThreads
    /\ cacheType = "memory"
    /\ redis = <<>>
    /\ handlerSet = TRUE
    /\ handled = <<>>
    /\ calls = 0
    /\ overlap = FALSE
    /\ last = NoStep
    /\ recency = <<>>
    /\ hook = NoHook
    /\ InitSide

NextCache ==
    \/ \E t \in Threads, k \in CacheKeys : CallIsProcessed(t, k)
    \/ \E t \in Threads, k \in CacheKeys, ttl \in TTLs : CallMarkProcessed(t, k, ttl)
    \/ \E t \in Threads : MemIsProcessedDelete(t)
    \/ \E t \in Threads : MemIsProcessedTouch(t)
    \/ cleanupExpired
    \/ Tick

SpecCache == InitCache /\ [][NextCache]_vars


(***************************************************************************)
(* Strings are sequences of one-character strings.                         *)
(***************************************************************************)
HexDigits == {"0", "1", "2", "3", "4", "5", "6", "7", "8", "9",
              "a", "b", "c", "d", "e", "f"}

\* unicode.ToLower on the letters the inputs use
LowerChar(c) ==
    CASE c = "A" -> "a" [] c = "B" -> "b" [] c = "C" -> "c" [] c = "D" -> "d"
      [] c = "E" -> "e" [] c = "F" -> "f" [] c = "X" -> "x" [] c = "Z" -> "z"
      [] OTHER -> c

\* strings.ToLower
ToLower(str) == [i \in 1..Len(str) |-> LowerChar(str[i])]

\* strings.HasPrefix(str, "0x")
HasPrefix0x(str) == Len(str) >= 2 /\ str[1] = "0" /\ str[2] = "x"

\* strings.TrimPrefix(str, "0x")
TrimPrefix0x(str) == IF HasPrefix0x(str) THEN SubSeq(str, 3, Len(str)) ELSE str

\* every character is one of 0-9, a-f
AllHex(str) == \A i \in 1..Len(str) : str[i] \in HexDigits

AddressHexLen == 40
HashHexLen == 64

(***************************************************************************)
(* validateEthereumAddress: TRUE when it returns nil.                      *)
(***************************************************************************)
validateEthereumAddress(addr) ==
    /\ addr # <<>>
    /\ Len(TrimPrefix0x(ToLower(addr))) = AddressHexLen
    /\ AllHex(TrimPrefix0x(ToLower(addr)))

(***************************************************************************)
(* validateTransactionHash: TRUE when it returns nil.                      *)
(***************************************************************************)
validateTransactionHash(hash) ==
    /\ hash # <<>>
    /\ Len(TrimPrefix0x(ToLower(hash))) = HashHexLen
    /\ AllHex(TrimPrefix0x(ToLower(hash)))

(***************************************************************************)
(* validateBlockNumber: TRUE when it returns nil.                          *)
(***************************************************************************)
validateBlockNumber(blockNumStr) ==
    /\ blockNumStr # <<>>
    /\ Len(TrimPrefix0x(ToLower(blockNumStr))) # 0
    /\ AllHex(TrimPrefix0x(ToLower(blockNumStr)))

\* mutant of NormalizedHash: the hash keeps its letter case
NormalizedHash_KeepCase(hash) ==
    IF HasPrefix0x(TrimPrefix0x(hash)) THEN TrimPrefix0x(hash)
    ELSE <<"0", "x">> \o TrimPrefix0x(hash)

(***************************************************************************)
(* ProcessActivity: txHash, the lower-cased hash with one "0x" in front.   *)
(***************************************************************************)
NormalizedHash(hash) ==
    LET h == ToLower(TrimPrefix0x(hash))
    IN  IF HasPrefix0x(h) THEN h ELSE <<"0", "x">> \o h

\* an absent pointer field (nil); a present one is <<value>>
Nil == <<>>
Some(v) == <<v>>

\* mutant of UniqueID: the trace address is left out of the key
UniqueID_HashOnly(activity) == NormalizedHash(activity.Hash)

(***************************************************************************)
(* ProcessActivity: uniqueID, the dedup key.                               *)
(***************************************************************************)
UniqueID(activity) ==
    IF activity.TypeTraceAddress # Nil /\ activity.TypeTraceAddress[1] # <<>>
    THEN NormalizedHash(activity.Hash) \o <<"_">> \o activity.TypeTraceAddress[1]
    ELSE NormalizedHash(activity.Hash)

(***************************************************************************)
(* The checks ProcessActivity makes before it consults the cache:          *)
(* "ok", or the validation error it returns.                               *)
(***************************************************************************)
ValidateBeforeCache(activity) ==
    IF ~validateEthereumAddress(activity.ToAddress) THEN "invalid to address"
    ELSE IF ~validateEthereumAddress(activity.FromAddress) THEN "invalid from address"
    ELSE IF ~validateTransactionHash(NormalizedHash(activity.Hash))
         THEN "invalid transaction hash"
    ELSE "ok"

\* the category names ProcessActivity compares with
CatExternal == <<"e", "x", "t", "e", "r", "n", "a", "l">>
CatInternal == <<"i", "n", "t", "e", "r", "n", "a", "l">>
CatToken == <<"t", "o", "k", "e", "n">>
CatErc20 == <<"e", "r", "c", "2", "0">>
CatErc721 == <<"e", "r", "c", "7", "2", "1">>
CatErc1155 == <<"e", "r", "c", "1", "1", "5", "5">>

\* the value of one hexadecimal digit
HexDigitValue(c) ==
    CASE c = "0" -> 0 [] c = "1" -> 1 [] c = "2" -> 2 [] c = "3" -> 3
      [] c = "4" -> 4 [] c = "5" -> 5 [] c = "6" -> 6 [] c = "7" -> 7
      [] c = "8" -> 8 [] c = "9" -> 9 [] c = "a" -> 10 [] c = "b" -> 11
      [] c = "c" -> 12 [] c = "d" -> 13 [] c = "e" -> 14 [] c = "f" -> 15
      [] OTHER -> 0

RECURSIVE HexNumber(_)
HexNumber(str) ==
    IF str = <<>> THEN 0
    ELSE 16 * HexNumber(SubSeq(str, 1, Len(str) - 1)) + HexDigitValue(LowerChar(str[Len(str)]))

(***************************************************************************)
(* big.Int.SetString(str, 16) and strconv.ParseInt(str, 16, 64): an        *)
(* optional sign, then at least one hex digit of either case.  Nil when    *)
(* the string does not parse.                                              *)
(***************************************************************************)
ParseSignedHex(str) ==
    LET signed == str # <<>> /\ str[1] \in {"+", "-"}
        digits == IF signed THEN Tail(str) ELSE str
    IN  IF digits = <<>> \/ ~AllHex(ToLower(digits)) THEN Nil
        ELSE IF signed /\ str[1] = "-" THEN Some(0 - HexNumber(digits))
        ELSE Some(HexNumber(digits))

\* a numeral without its leading zeros
RECURSIVE Significant(_)
Significant(digits) ==
    IF digits # <<>> /\ digits[1] = "0" THEN Significant(Tail(digits)) ELSE digits

\* whether the numeral a is at most the numeral b of the same length
RECURSIVE NumeralLeq(_, _)
NumeralLeq(a, b) ==
    IF a = <<>> THEN TRUE
    ELSE IF HexDigitValue(a[1]) # HexDigitValue(b[1])
    THEN HexDigitValue(a[1]) < HexDigitValue(b[1])
    ELSE NumeralLeq(Tail(a), Tail(b))

\* 2^63 - 1 and 2^63, in hexadecimal and in decimal
MaxInt64Hex == <<"7">> \o [i \in 1..15 |-> "f"]
MinInt64Hex == <<"8">> \o [i \in 1..15 |-> "0"]
MaxInt64Dec == <<"9", "2", "2", "3", "3", "7", "2", "0", "3", "6",
                 "8", "5", "4", "7", "7", "5", "8", "0", "7">>
MinInt64Dec == <<"9", "2", "2", "3", "3", "7", "2", "0", "3", "6",
                 "8", "5", "4", "7", "7", "5", "8", "0", "8">>

\* whether the magnitude written by digits, negated or not, is an int64
FitsInt64(digits, negative, max, min) ==
    LET d == Significant(digits)
        bound == IF negative THEN min ELSE max
    IN  Len(d) < Len(bound) \/ (Len(d) = Len(bound) /\ NumeralLeq(d, bound))

\* strconv.ParseInt(str, 16, 64); Nil on a syntax or range error
ParseInt16(str) ==
    LET signed == str # <<>> /\ str[1] \in {"+", "-"}
        digits == ToLower(IF signed THEN Tail(str) ELSE str)
    IN  IF ParseSignedHex(str) = Nil THEN Nil
        ELSE IF ~FitsInt64(digits, signed /\ str[1] = "-", MaxInt64Hex, MinInt64Hex)
        THEN Nil
        ELSE ParseSignedHex(str)

DecDigits == {"0", "1", "2", "3", "4", "5", "6", "7", "8", "9"}

RECURSIVE DecNumber(_)
DecNumber(str) ==
    IF str = <<>> THEN 0
    ELSE 10 * DecNumber(SubSeq(str, 1, Len(str) - 1)) + HexDigitValue(str[Len(str)])

\* strconv.Atoi(str): an optional sign, then decimal digits; Nil on a syntax
\* or range error
Atoi(str) ==
    LET signed == str # <<>> /\ str[1] \in {"+", "-"}
        digits == IF signed THEN Tail(str) ELSE str
    IN  IF digits = <<>> \/ \E i \in 1..Len(digits) : digits[i] \notin DecDigits THEN Nil
        ELSE IF ~FitsInt64(digits, signed /\ str[1] = "-", MaxInt64Dec, MinInt64Dec)
        THEN Nil
        ELSE IF signed /\ str[1] = "-" THEN Some(0 - DecNumber(digits))
        ELSE Some(DecNumber(digits))

DefaultDecimals == 18

\* mutant of getDecimals: a string is read as a decimal number unless it has
\* the prefix "0x"
getDecimals_DecimalFirst(activity) ==
    IF activity.RawContract = Nil \/ activity.RawContract[1].Decimals = Nil
    THEN DefaultDecimals
    ELSE LET v == activity.RawContract[1].Decimals[1]
         IN  IF "num" \in DOMAIN v THEN v.num
             ELSE IF ~HasPrefix0x(v.str) /\ Atoi(v.str) # Nil THEN Atoi(v.str)[1]
             ELSE IF ParseInt16(TrimPrefix0x(v.str)) # Nil
                  THEN ParseInt16(TrimPrefix0x(v.str))[1]
                  ELSE DefaultDecimals

(***************************************************************************)
(* ProcessActivity.getDecimals.  A decimals field is Nil, a number         *)
(* [num |-> n] or a string [str |-> s].  A string is stripped of "0x" and  *)
(* read as hexadecimal; only when that fails it is read as decimal.        *)
(***************************************************************************)
getDecimals(activity) ==
    IF activity.RawContract = Nil \/ activity.RawContract[1].Decimals = Nil
    THEN DefaultDecimals
    ELSE LET v == activity.RawContract[1].Decimals[1]
             decimalsStr == TrimPrefix0x(v.str)
         IN  IF "num" \in DOMAIN v THEN v.num
             ELSE IF ParseInt16(decimalsStr) # Nil THEN ParseInt16(decimalsStr)[1]
             ELSE IF Atoi(decimalsStr) # Nil THEN Atoi(decimalsStr)[1]
             ELSE DefaultDecimals

\* an arbitrary-precision integer m * 10^e
Big(m, e) == [m |-> m, e |-> IF m = 0 THEN 0 ELSE e]

(***************************************************************************)
(* ProcessActivity after the cache check, up to the zero test:             *)
(*   [kind |-> "error", err |-> e]   it returns the error e                *)
(*   [kind |-> "nil"]                it returns nil before an amount is set *)
(*   [kind |-> "amount", ...]        the amount it has computed            *)
(***************************************************************************)
ComputedAmount(activity) ==
    LET category == ToLower(activity.Category)
        hasTrace == activity.TypeTraceAddress # Nil /\ activity.TypeTraceAddress[1] # <<>>
        isInternalTx == category = CatInternal \/ hasTrace
        raw == activity.RawContract
        Event(amount) ==
            [kind |-> "amount", amount |-> amount, category |-> category,
             isInternal |-> isInternalTx]
    IN  IF ~validateBlockNumber(activity.BlockNum)
        THEN [kind |-> "error", err |-> "invalid block number"]
        ELSE IF Len(TrimPrefix0x(activity.BlockNum)) > 16
                \/ ~AllHex(ToLower(TrimPrefix0x(activity.BlockNum)))
        THEN [kind |-> "error", err |-> "failed to parse block number"]
        ELSE IF category = CatExternal \/ category = CatInternal
        THEN IF activity.Value = Nil THEN [kind |-> "nil"]
             ELSE Event(Big(activity.Value[1], 18))
        ELSE IF category = CatToken \/ category = CatErc20
                \/ (raw # Nil /\ raw[1].Address # <<>>)
        THEN IF raw = Nil THEN [kind |-> "nil"]
             ELSE IF raw[1].RawValue = <<>>
             THEN IF activity.Value = Nil THEN [kind |-> "nil"]
                  ELSE Event(Big(activity.Value[1], getDecimals(activity)))
             ELSE IF ParseSignedHex(TrimPrefix0x(raw[1].RawValue)) = Nil
                  THEN Event(Big(0, 0))
                  ELSE Event(Big(ParseSignedHex(TrimPrefix0x(raw[1].RawValue))[1], 0))
        ELSE IF category = CatErc721
        THEN IF activity.ERC721TokenID = Nil \/ raw = Nil THEN [kind |-> "nil"]
             ELSE Event(Big(1, 0))
        ELSE IF category = CatErc1155
        THEN IF raw = Nil THEN [kind |-> "nil"]
             ELSE Event(Big(1, 0))
        ELSE [kind |-> "nil"]

(***************************************************************************)
(* ProcessActivity after the cache check, up to the handler call:          *)
(*   [kind |-> "error", err |-> e]   it returns the error e                *)
(*   [kind |-> "nil"]                it returns nil without an event       *)
(*   [kind |-> "event", ...]         the event it hands to the handler     *)
(* A zero amount is suppressed.                                            *)
(***************************************************************************)
Normalize(activity) ==
    LET c == ComputedAmount(activity)
    IN  IF c.kind # "amount" THEN c
        ELSE IF c.amount.m = 0 THEN [kind |-> "nil"]
        ELSE [kind |-> "event", amount |-> c.amount, category |-> c.category,
              isInternal |-> c.isInternal]

\* mutant of FirstDebited: the highest debited index
FirstDebited_Highest(pre, post, i, j) ==
    LET D == {x \in (1..Len(pre)) \ {i} : pre[x] > post[x]}
    IN  IF D = {} THEN 0 ELSE CHOOSE x \in D : \A y \in D : y <= x

(***************************************************************************)
(* Processor.extractNativeTransfers.  For the credited index i, the first  *)
(* debited index j # i, or 0 when there is none.                           *)
(***************************************************************************)
RECURSIVE FirstDebited(_, _, _, _)
FirstDebited(pre, post, i, j) ==
    IF j > Len(pre) THEN 0
    ELSE IF i # j /\ pre[j] > post[j] /\ pre[j] - post[j] > 0 THEN j
    ELSE FirstDebited(pre, post, i, j + 1)

RECURSIVE NativeFrom(_, _, _, _)
NativeFrom(accountKeys, pre, post, i) ==
    IF i > Len(accountKeys) THEN <<>>
    ELSE LET balanceChange == post[i] - pre[i]
             j == FirstDebited(pre, post, i, 1)
             rest == NativeFrom(accountKeys, pre, post, i + 1)
         IN  IF balanceChange > 0 /\ j # 0
             THEN <<[FromUserAccount |-> accountKeys[j],
                     ToUserAccount |-> accountKeys[i],
                     Amount |-> balanceChange]>> \o rest
             ELSE rest

extractNativeTransfers(accountKeys, meta) ==
    IF Len(meta.PreBalances) = Len(meta.PostBalances)
       /\ Len(meta.PreBalances) = Len(accountKeys)
    THEN NativeFrom(accountKeys, meta.PreBalances, meta.PostBalances, 1)
    ELSE <<>>

\* "TokenkegQfeZyiNwAJbNbGKPFXCWuBvf9Ss623VQ5DA"
SplTokenProgramID == <<"T", "o", "k", "e", "n">>

\* Processor.tokenMints: currency -> mint address
TokenMints == [USDC |-> <<"m", "U">>, SOL |-> <<"m", "S">>, WSOL |-> <<"m", "S">>]

\* whether instruction index idx names an account key (Go indexes from 0)
InRange(idx, accountKeys) == idx >= 0 /\ idx < Len(accountKeys)

\* accountKeys[idx], Go indexing
KeyAt(accountKeys, idx) == accountKeys[idx + 1]

\* the instructions of a list that the SPL Token program executes
RECURSIVE SplInstructions(_, _)
SplInstructions(instrs, accountKeys) ==
    IF instrs = <<>> THEN <<>>
    ELSE LET in == Head(instrs)
             rest == SplInstructions(Tail(instrs), accountKeys)
         IN  IF InRange(in.ProgramIDIndex, accountKeys)
                /\ KeyAt(accountKeys, in.ProgramIDIndex) = SplTokenProgramID
             THEN <<in>> \o rest
             ELSE rest

RECURSIVE InnerSplInstructions(_, _)
InnerSplInstructions(groups, accountKeys) ==
    IF groups = <<>> THEN <<>>
    ELSE SplInstructions(Head(groups).Instructions, accountKeys)
           \o InnerSplInstructions(Tail(groups), accountKeys)

\* extractTokenTransfers: allInstructions
AllInstructions(accountKeys, msg, meta) ==
    SplInstructions(msg.Instructions, accountKeys)
      \o (IF ~meta.InnerInstructionsNone /\ Len(meta.InnerInstructions) > 0
          THEN InnerSplInstructions(meta.InnerInstructions, accountKeys)
          ELSE <<>>)

\* whether str occurs in text
Contains(text, str) ==
    /\ Len(text) > 0
    /\ Len(str) > 0
    /\ \E i \in 1..Len(text) :
          i + Len(str) - 1 <= Len(text) /\ SubSeq(text, i, i + Len(str) - 1) = str

Mints == {TokenMints[c] : c \in DOMAIN TokenMints}

(***************************************************************************)
(* The mint a legacy Transfer (opcode 3) may resolve to.  The loops range  *)
(* over the map tokenMints, whose order Go leaves open: the first log      *)
(* message that holds a configured mint decides, else the first account    *)
(* key that is one; <<>> when there is none.                               *)
(***************************************************************************)
RECURSIVE MintsInLogs(_)
MintsInLogs(logMessages) ==
    IF logMessages = <<>> THEN {}
    ELSE LET found == {m \in Mints : Contains(Head(logMessages), m)}
         IN  IF found # {} THEN found ELSE MintsInLogs(Tail(logMessages))

RECURSIVE MintsInKeys(_)
MintsInKeys(accountKeys) ==
    IF accountKeys = <<>> THEN {}
    ELSE LET found == {m \in Mints : Head(accountKeys) = m}
         IN  IF found # {} THEN found ELSE MintsInKeys(Tail(accountKeys))

ResolvedMints(accountKeys, meta) ==
    IF MintsInLogs(meta.LogMessages) # {} THEN MintsInLogs(meta.LogMessages)
    ELSE IF MintsInKeys(accountKeys) # {} THEN MintsInKeys(accountKeys)
    ELSE {<<>>}

\* mutant of getCurrencyFromMint: any mint is given a currency
getCurrencyFromMint_Any(mint) == DOMAIN TokenMints

\* Processor.getCurrencyFromMint: the currencies it may return
getCurrencyFromMint(mint) == {c \in DOMAIN TokenMints : TokenMints[c] = mint}

OpTransfer == 3
OpTransferChecked == 12

\* a byte string without its trailing zero bytes
RECURSIVE StripTrailingZeros(_)
StripTrailingZeros(b) ==
    IF b = <<>> THEN <<>>
    ELSE IF b[Len(b)] = 0 THEN StripTrailingZeros(SubSeq(b, 1, Len(b) - 1))
    ELSE b

Reverse(s) == [i \in 1..Len(s) |-> s[Len(s) + 1 - i]]

\* mutant of LittleEndianUint64: the first byte is the most significant
LittleEndianUint64_BigEndian(b) == Reverse(StripTrailingZeros(Reverse(b)))

(***************************************************************************)
(* binary.LittleEndian.Uint64: the unsigned integer whose least            *)
(* significant byte comes first.  The integer is written in base 256, most *)
(* significant digit first and without leading zeros (zero is <<>>), since *)
(* it may not fit a machine integer of the checker.                        *)
(***************************************************************************)
LittleEndianUint64(b) == Reverse(StripTrailingZeros(b))

\* `if currency == "USDC" || currency == "USDT" { decimals = 6 } else { decimals = 9 }`
TokenDecimals(currency) == IF currency \in {"USDC", "USDT"} THEN 6 ELSE 9

(***************************************************************************)
(* extractTokenTransfers, one instruction: the lists (empty or of one      *)
(* transfer) it may append.  Data is what base58.Decode gives:             *)
(* [ok |-> FALSE] or [ok |-> TRUE, bytes |-> the bytes]; an empty Data     *)
(* string is [ok |-> TRUE, bytes |-> <<>>].  TokenAmount is the quotient   *)
(* raw / 10^decimals; the eight bytes raw was decoded from are kept.       *)
(***************************************************************************)
TransfersOf(in, accountKeys, meta) ==
    LET data == in.Data
        acc == in.Accounts
        Emit(from, to, mint) ==
            IF mint # <<>> /\ InRange(from, accountKeys) /\ InRange(to, accountKeys)
               /\ getCurrencyFromMint(mint) # {}
            THEN {<<[FromTokenAccount |-> KeyAt(accountKeys, from),
                     ToTokenAccount |-> KeyAt(accountKeys, to),
                     AmountBytes |-> SubSeq(data.bytes, 2, 9),
                     TokenAmount |->
                        [raw |-> LittleEndianUint64(SubSeq(data.bytes, 2, 9)),
                         decimals |-> TokenDecimals(c)],
                     Mint |-> mint,
                     Currency |-> c]>> : c \in getCurrencyFromMint(mint)}
            ELSE {<<>>}
    IN  IF ~data.ok \/ Len(data.bytes) < 1 THEN {<<>>}
        ELSE IF data.bytes[1] = OpTransferChecked
        THEN IF Len(acc) < 4 \/ Len(data.bytes) < 9 THEN {<<>>}
             ELSE IF ~InRange(acc[1], accountKeys) \/ ~InRange(acc[2], accountKeys)
                     \/ ~InRange(acc[3], accountKeys)
             THEN {<<>>}
             ELSE Emit(acc[1], acc[3], KeyAt(accountKeys, acc[2]))
        ELSE IF data.bytes[1] = OpTransfer
        THEN IF Len(acc) < 3 \/ Len(data.bytes) < 9 THEN {<<>>}
             ELSE IF ~InRange(acc[1], accountKeys) \/ ~InRange(acc[2], accountKeys)
             THEN {<<>>}
             ELSE UNION {Emit(acc[1], acc[2], m) : m \in ResolvedMints(accountKeys, meta)}
        ELSE {<<>>}

RECURSIVE TransfersOfAll(_, _, _)

\* mutant of TransfersOfAll: the loop ends at the first instruction that gives
\* no transfer
TransfersOfAll_StopAtBad(instrs, accountKeys, meta) ==
    IF instrs = <<>> THEN {<<>>}
    ELSE {IF a = <<>> THEN <<>> ELSE a \o b :
             a \in TransfersOf(Head(instrs), accountKeys, meta),
             b \in TransfersOfAll(Tail(instrs), accountKeys, meta)}

\* extractTokenTransfers, the loop over allInstructions
TransfersOfAll(instrs, accountKeys, meta) ==
    IF instrs = <<>> THEN {<<>>}
    ELSE {a \o b : a \in TransfersOf(Head(instrs), accountKeys, meta),
                   b \in TransfersOfAll(Tail(instrs), accountKeys, meta)}

\* Processor.extractTokenTransfers: the lists it may return
extractTokenTransfers(accountKeys, msg, meta) ==
    TransfersOfAll(AllInstructions(accountKeys, msg, meta), accountKeys, meta)

(***************************************************************************)
(* ProcessTransaction before the cache check: whether it goes on (the      *)
(* transaction, meta, message and account-key arrays are all non-empty).   *)
(***************************************************************************)
HasMessage(alchemyTx) ==
    /\ Len(alchemyTx.Transaction) # 0
    /\ Len(alchemyTx.Meta) # 0
    /\ Len(alchemyTx.Transaction[1].Message) # 0
    /\ Len(alchemyTx.Transaction[1].Message[1].AccountKeys) # 0

(***************************************************************************)
(* ProcessTransaction after the cache check: the processedTx values it may *)
(* build.                                                                  *)
(***************************************************************************)
ProcessedTransactions(alchemyTx) ==
    LET msg == alchemyTx.Transaction[1].Message[1]
        meta == alchemyTx.Meta[1]
    IN  {[Signature |-> alchemyTx.Signature,
          NativeTransfers |-> extractNativeTransfers(msg.AccountKeys, meta),
          TokenTransfers |-> tt] :
            tt \in extractTokenTransfers(msg.AccountKeys, msg, meta)}

(***************************************************************************)
(* The webhook payloads the processors are called with.                    *)
(***************************************************************************)
Address(c) == <<"0", "x">> \o [i \in 1..AddressHexLen |-> c]
TxHashOf(c) == <<"0", "x">> \o [i \in 1..HashHexLen |-> c]

\* AlchemyActivity: an external transfer of one unit
Transfer ==
    [BlockNum |-> <<"0", "x", "1">>, Hash |-> TxHashOf("a"),
     FromAddress |-> Address("1"), ToAddress |-> Address("2"),
     Value |-> Some(1), ERC721TokenID |-> Nil, Category |-> CatExternal,
     RawContract |-> Nil, TypeTraceAddress |-> Nil]

EthActivities ==
    << Transfer,
       [Transfer EXCEPT !.TypeTraceAddress = Some(<<"0">>)],
       [Transfer EXCEPT !.Hash = TxHashOf("b"), !.Value = Some(0)],
       [Transfer EXCEPT !.ToAddress = <<"0", "x", "z">>],
       [Transfer EXCEPT !.Value = Some(0)],
       [Transfer EXCEPT !.BlockNum = <<>>] >>

(***************************************************************************)
(* Activities for the amount computation: every combination of a category, *)
(* a value, a raw contract and a token id.                                 *)
(***************************************************************************)
Categories ==
    << CatExternal, CatInternal, CatToken, CatErc20, CatErc721, CatErc1155,
       <<"s", "p", "e", "c", "i", "a", "l">> >>

Values == << Nil, Some(0 - 1), Some(0), Some(1) >>

\* AlchemyRawContract
Contract(address, rawValue) ==
    Some([RawValue |-> rawValue, Address |-> address, Decimals |-> Nil])

RawContracts ==
    << Nil,
       Contract(<<>>, <<>>),
       Contract(<<>>, <<"0", "x", "5">>),
       Contract(Address("c"), <<>>),
       Contract(Address("c"), <<"0", "x", "5">>),
       Contract(Address("c"), <<"-", "5">>) >>

TokenIDs == << Nil, Some(<<"0", "x", "1">>) >>

\* the n-th combination, n counted from 1
GenActivity(n) ==
    LET k == n - 1
        c == k % Len(Categories)
        v == (k \div Len(Categories)) % Len(Values)
        r == (k \div (Len(Categories) * Len(Values))) % Len(RawContracts)
        d == (k \div (Len(Categories) * Len(Values) * Len(RawContracts))) % Len(TokenIDs)
    IN  [Transfer EXCEPT !.Category = Categories[c + 1],
                         !.Value = Values[v + 1],
                         !.RawContract = RawContracts[r + 1],
                         !.ERC721TokenID = TokenIDs[d + 1]]

GenActivities ==
    [n \in 1..(Len(Categories) * Len(Values) * Len(RawContracts) * Len(TokenIDs))
       |-> GenActivity(n)]

(***************************************************************************)
(* Token activities of value 1 without a raw hex value, one for each form  *)
(* of the decimals field: absent, a number, a hexadecimal string with the  *)
(* prefix "0x", a decimal string, a string that is neither.                *)
(***************************************************************************)
DecimalsFields ==
    << Nil,
       Some([num |-> 0]),
       Some([num |-> 6]),
       Some([str |-> <<"0", "x", "1", "2">>]),
       Some([str |-> <<"0", "x", "6">>]),
       Some([str |-> <<"1", "8">>]),
       Some([str |-> <<"6">>]),
       Some([str |-> <<"z", "z">>]),
       Some([str |-> <<"0", "x">>]),
       Some([str |-> <<>>]) >>

DecimalsActivities ==
    [n \in 1..Len(DecimalsFields) |->
        [Transfer EXCEPT !.Category = CatToken,
                         !.Value = Some(1),
                         !.RawContract = Some([RawValue |-> <<>>, Address |-> Address("c"),
                                               Decimals |-> DecimalsFields[n]])]]

(***************************************************************************)
(* erc721 activities whose token id is the empty string, one for each raw  *)
(* contract.                                                               *)
(***************************************************************************)
EmptyTokenIDActivities ==
    [n \in 1..Len(RawContracts) |->
        [Transfer EXCEPT !.Category = CatErc721,
                         !.ERC721TokenID = Some(<<>>),
                         !.RawContract = RawContracts[n]]]

\* every activity a delivery may carry; the specifications of the cache
\* protocol deliver only the first Len(EthActivities) of them
\* the hash, in upper case
ToUpperHash(c) == [i \in 1..HashHexLen |-> c]

(***************************************************************************)
(* The transfer with its hash written in other ways: upper case without    *)
(* the prefix, upper case after "0x", upper case after "0X", lower case    *)
(* without the prefix; and the sibling with trace address "0" in upper     *)
(* case without the prefix.                                                *)
(***************************************************************************)
HashVariantActivities ==
    << [Transfer EXCEPT !.Hash = ToUpperHash("A")],
       [Transfer EXCEPT !.Hash = <<"0", "x">> \o ToUpperHash("A")],
       [Transfer EXCEPT !.Hash = <<"0", "X">> \o ToUpperHash("A")],
       [Transfer EXCEPT !.Hash = ToUpperHash("a")],
       [Transfer EXCEPT !.Hash = ToUpperHash("A"), !.TypeTraceAddress = Some(<<"0">>)] >>

\* every activity a delivery may carry; the specifications of the cache
\* protocol deliver only the first Len(EthActivities) of them
AllEthActivities ==
    EthActivities \o GenActivities \o DecimalsActivities \o EmptyTokenIDActivities
        \o HashVariantActivities

\* AlchemySolanaTransaction: two lamports move from k1 to k2
SolTransfer ==
    [Signature |-> <<"s", "1">>,
     Transaction |->
        <<[Message |-> <<[AccountKeys |-> << <<"k", "1">>, <<"k", "2">> >>,
                          Instructions |-> <<>>]>>]>>,
     Meta |-> <<[PreBalances |-> <<5, 0>>, PostBalances |-> <<3, 2>>,
                 InnerInstructionsNone |-> TRUE, InnerInstructions |-> <<>>,
                 LogMessages |-> <<>>]>>]

SolanaTransactions ==
    << SolTransfer,
       [SolTransfer EXCEPT !.Signature = <<"s", "2">>,
                           !.Meta[1].PostBalances = <<5, 0>>],
       [SolTransfer EXCEPT !.Meta = <<>>] >>

(***************************************************************************)
(* Transactions for the token extraction: one instruction, outer or inner, *)
(* of the SPL Token program or another, with every combination of          *)
(* instruction data, accounts, the account key in the mint's place and log *)
(* messages.  No balance changes.                                          *)
(***************************************************************************)
AmountOne == <<1, 0, 0, 0, 0, 0, 0, 0>>

\* the eight bytes whose last is 1
AmountHighOne == <<0, 0, 0, 0, 0, 0, 0, 1>>

\* base58.Decode(instruction.Data)
Datas ==
    << [ok |-> TRUE, bytes |-> <<OpTransferChecked>> \o AmountOne],
       [ok |-> TRUE, bytes |-> <<OpTransferChecked>> \o AmountHighOne],
       [ok |-> TRUE, bytes |-> <<OpTransfer>> \o AmountOne],
       [ok |-> TRUE, bytes |-> <<OpTransferChecked>>],
       [ok |-> TRUE, bytes |-> <<1>> \o AmountOne],
       [ok |-> TRUE, bytes |-> <<>>],
       [ok |-> FALSE] >>

\* instruction.Accounts: source, mint, destination, owner; without the mint;
\* with a mint index that names no account key
AccountLists == << <<0, 3, 1, 0>>, <<0, 1, 0>>, <<0, 9, 1, 0>> >>

\* the account key at index 3: a configured mint, a mint that is not
\* configured, an empty key
MintKeys == << <<"m", "U">>, <<"m", "S">>, <<"m", "X">>, <<>> >>

LogLists ==
    << <<>>,
       << <<"l", "o", "g">>, <<"x", "m", "U", "y">> >>,
       << <<"x", "m", "X", "y">> >> >>

\* program_id_index: the SPL Token program, another account
ProgramIndexes == << 2, 0 >>

\* whether the instruction is an inner instruction of meta
Placements == << FALSE, TRUE >>

GenTransaction(n) ==
    LET k == n - 1
        d == k % Len(Datas)
        a == (k \div Len(Datas)) % Len(AccountLists)
        m == (k \div (Len(Datas) * Len(AccountLists))) % Len(MintKeys)
        l == (k \div (Len(Datas) * Len(AccountLists) * Len(MintKeys))) % Len(LogLists)
        p == (k \div (Len(Datas) * Len(AccountLists) * Len(MintKeys) * Len(LogLists)))
                % Len(ProgramIndexes)
        i == (k \div (Len(Datas) * Len(AccountLists) * Len(MintKeys) * Len(LogLists)
                        * Len(ProgramIndexes))) % Len(Placements)
        inner == Placements[i + 1]
        instruction == [Data |-> Datas[d + 1], ProgramIDIndex |-> ProgramIndexes[p + 1],
                        Accounts |-> AccountLists[a + 1]]
    IN  [Signature |-> <<"s", "3">>,
         Transaction |->
            <<[Message |->
                 <<[AccountKeys |-> << <<"k", "1">>, <<"k", "2">>, SplTokenProgramID,
                                       MintKeys[m + 1] >>,
                    Instructions |-> IF inner THEN <<>> ELSE <<instruction>>]>>]>>,
         Meta |-> <<[PreBalances |-> <<0, 0, 0, 0>>, PostBalances |-> <<0, 0, 0, 0>>,
                     InnerInstructionsNone |-> FALSE,
                     InnerInstructions |->
                        IF inner THEN <<[Instructions |-> <<instruction>>]>> ELSE <<>>,
                     LogMessages |-> LogLists[l + 1]]>>]

GenCount ==
    Len(Datas) * Len(AccountLists) * Len(MintKeys) * Len(LogLists)
      * Len(ProgramIndexes) * Len(Placements)

GenTransactions == [n \in 1..GenCount |-> GenTransaction(n)]

(***************************************************************************)
(* Transactions for the native extraction: three accounts that each start  *)
(* with MaxDelta lamports and end with anything from 0 to 2 * MaxDelta,    *)
(* and transactions whose balance arrays and account keys differ in        *)
(* length.  No instructions.                                               *)
(***************************************************************************)
MaxDelta == 2

PostValues == 0..(2 * MaxDelta)

BalanceKeys == << <<"k", "1">>, <<"k", "2">>, <<"k", "3">> >>

WithBalances(keys, pre, post) ==
    [Signature |-> <<"s", "4">>,
     Transaction |-> <<[Message |-> <<[AccountKeys |-> keys, Instructions |-> <<>>]>>]>>,
     Meta |-> <<[PreBalances |-> pre, PostBalances |-> post,
                 InnerInstructionsNone |-> TRUE, InnerInstructions |-> <<>>,
                 LogMessages |-> <<>>]>>]

BalanceTransaction(n) ==
    LET k == n - 1
        w == Cardinality(PostValues)
    IN  WithBalances(BalanceKeys, <<MaxDelta, MaxDelta, MaxDelta>>,
                     <<k % w, (k \div w) % w, (k \div (w * w)) % w>>)

BalanceCount == Cardinality(PostValues) * Cardinality(PostValues) * Cardinality(PostValues)

\* a balance missing before, after, on both sides, and an account key missing
MismatchedTransactions ==
    << WithBalances(BalanceKeys, <<MaxDelta, 0>>, <<0, MaxDelta, 0>>),
       WithBalances(BalanceKeys, <<MaxDelta, 0, 0>>, <<0, MaxDelta>>),
       WithBalances(BalanceKeys, <<MaxDelta, 0>>, <<0, MaxDelta>>),
       WithBalances(SubSeq(BalanceKeys, 1, 2), <<MaxDelta, 0, 0>>, <<0, MaxDelta, 0>>) >>

(***************************************************************************)
(* Transactions of several instructions: up to MaxInstructions top-level   *)
(* instructions from a palette of three transfers with different amounts   *)
(* and one instruction for every way of being skipped, and up to two inner *)
(* instructions from a smaller palette, with inner_instructions_none set   *)
(* or not.  Account 3 is the USDC mint.                                    *)
(***************************************************************************)
MaxInstructions == 2

AmountTwo == <<2, 0, 0, 0, 0, 0, 0, 0>>
AmountThree == <<3, 0, 0, 0, 0, 0, 0, 0>>
AmountFour == <<4, 0, 0, 0, 0, 0, 0, 0>>

InstructionOf(program, bytes, accounts) ==
    [Data |-> [ok |-> TRUE, bytes |-> bytes], ProgramIDIndex |-> program,
     Accounts |-> accounts]

Palette ==
    << InstructionOf(2, <<OpTransferChecked>> \o AmountOne, <<0, 3, 1, 0>>),
       InstructionOf(2, <<OpTransferChecked>> \o AmountTwo, <<1, 3, 0, 1>>),
       InstructionOf(2, <<OpTransfer>> \o AmountThree, <<0, 1, 0>>),
       InstructionOf(2, <<>>, <<0, 3, 1, 0>>),
       [Data |-> [ok |-> FALSE], ProgramIDIndex |-> 2, Accounts |-> <<0, 3, 1, 0>>],
       InstructionOf(2, <<1>> \o AmountOne, <<0, 3, 1, 0>>),
       InstructionOf(2, <<OpTransferChecked>> \o AmountOne, <<0, 3, 1>>),
       InstructionOf(2, <<OpTransferChecked, 1>>, <<0, 3, 1, 0>>),
       InstructionOf(2, <<OpTransferChecked>> \o AmountOne, <<0, 3, 9, 0>>),
       InstructionOf(0, <<OpTransferChecked>> \o AmountOne, <<0, 3, 1, 0>>) >>

InnerPalette ==
    << InstructionOf(2, <<OpTransferChecked>> \o AmountFour, <<1, 3, 0, 1>>),
       InstructionOf(2, <<OpTransfer>> \o AmountThree, <<0, 1, 0>>),
       InstructionOf(0, <<OpTransferChecked>> \o AmountOne, <<0, 3, 1, 0>>) >>

\* the lists of up to max instructions of the palette P, numbered from 0
RECURSIVE ListCount(_, _)
ListCount(P, max) == IF max = 0 THEN 1 ELSE 1 + Len(P) * ListCount(P, max - 1)

RECURSIVE InstructionList(_, _)
InstructionList(P, k) ==
    IF k = 0 THEN <<>>
    ELSE <<P[((k - 1) % Len(P)) + 1]>> \o InstructionList(P, (k - 1) \div Len(P))

OuterLists == ListCount(Palette, MaxInstructions)
InnerLists == ListCount(InnerPalette, 2)

MultiTransaction(n) ==
    LET k == n - 1
        outer == InstructionList(Palette, k % OuterLists)
        inner == InstructionList(InnerPalette, (k \div OuterLists) % InnerLists)
        none == ((k \div (OuterLists * InnerLists)) % 2) = 1
    IN  [Signature |-> <<"s", "5">>,
         Transaction |->
            <<[Message |->
                 <<[AccountKeys |-> << <<"k", "1">>, <<"k", "2">>, SplTokenProgramID,
                                       TokenMints.USDC >>,
                    Instructions |-> outer]>>]>>,
         Meta |-> <<[PreBalances |-> <<0, 0, 0, 0>>, PostBalances |-> <<0, 0, 0, 0>>,
                     InnerInstructionsNone |-> none,
                     InnerInstructions |->
                        IF inner = <<>> THEN <<>> ELSE <<[Instructions |-> inner]>>,
                     LogMessages |-> <<>>]>>]

MultiCount == OuterLists * InnerLists * 2

\* how many transactions have one instruction or none
SingleCount == Len(SolanaTransactions) + GenCount + BalanceCount + Len(MismatchedTransactions)

SingleIndexes == 1..SingleCount
MultiIndexes == (SingleCount + 1)..(SingleCount + MultiCount)

(***************************************************************************)
(* Backfill.getEnhancedTransactions: the ProcessedTransaction it builds    *)
(* for a transaction of the chain, from the signature alone.               *)
(***************************************************************************)
Enhanced(chainTx) == [Signature |-> chainTx.Signature, Slot |-> 0]

\* Backfill.convertToAlchemyTx: `&AlchemySolanaTransaction{Signature: tx.Signature}`
convertToAlchemyTx(tx) == [Signature |-> tx.Signature, Transaction |-> <<>>, Meta |-> <<>>]

\* the i-th transaction: the fixed ones, then the generated ones, then what
\* the backfill makes of the fixed ones
TransactionAt(i) ==
    IF i <= Len(SolanaTransactions) THEN SolanaTransactions[i]
    ELSE IF i <= Len(SolanaTransactions) + GenCount
    THEN GenTransaction(i - Len(SolanaTransactions))
    ELSE IF i <= Len(SolanaTransactions) + GenCount + BalanceCount
    THEN BalanceTransaction(i - Len(SolanaTransactions) - GenCount)
    ELSE IF i <= SingleCount
    THEN MismatchedTransactions[i - Len(SolanaTransactions) - GenCount - BalanceCount]
    ELSE IF i <= SingleCount + MultiCount
    THEN MultiTransaction(i - SingleCount)
    ELSE convertToAlchemyTx(Enhanced(SolanaTransactions[i - SingleCount - MultiCount]))

\* every transaction a delivery may carry; the specifications of the cache
\* protocol deliver only the first Len(SolanaTransactions) of them
AllSolanaTransactions ==
    [i \in 1..(SingleCount + MultiCount + Len(SolanaTransactions)) |-> TransactionAt(i)]

\* ttl := 24 * time.Hour, in clock ticks
TTL24h == 1

(***************************************************************************)
(* RedisCache.IsProcessed: Exists on the remote store, where a key is gone *)
(* once its time to live has elapsed.                                      *)
(***************************************************************************)
RedisExists(k) == k \in DOMAIN redis /\ (redis[k] = NoExpiry \/ now < redis[k])

(***************************************************************************)
(* RedisCache.MarkProcessed: client.Set(ctx, key, "1", ttl).  The client   *)
(* sends an expiry only for ttl > 0; with any other ttl it sends a plain   *)
(* SET and the key stays until it is overwritten.                          *)
(***************************************************************************)
RedisSet(m, k, ttl, t) == MapSet(m, k, IF ttl > 0 THEN t + ttl ELSE NoExpiry)

\* mutant of NoOpIsProcessed: every key is reported processed
NoOpIsProcessed_True(txHash) == "true"

\* NoOpCache.IsProcessed: `return false, nil`
NoOpIsProcessed(txHash) == "false"

(***************************************************************************)
(* p.cache.IsProcessed as the processors call it, for the backend held.    *)
(* The remote store may fail; NoOpCache reports false; with no cache the   *)
(* call is skipped.                                                        *)
(***************************************************************************)
CacheIsProcessed(t, j) ==
    \/ /\ cacheType = "memory"
       /\ MemIsProcessedRead(t, j)
       /\ UNCHANGED redis
    \/ /\ cacheType = "redis"
       /\ \E err \in BOOLEAN :
            /\ cres' = [cres EXCEPT ![t] = IF err THEN "error"
                                           ELSE IF RedisExists(j.key) THEN "true"
                                           ELSE "false"]
            /\ last' = Step(IF err THEN "isErr" ELSE "isRead", NoKey, 0, FALSE, FALSE)
       /\ pc' = [pc EXCEPT ![t] = "checked"]
       /\ job' = [job EXCEPT ![t] = j]
       /\ UNCHANGED <<cacheVars, redis, recency, now>>
    \/ /\ cacheType \in {"noop", "nil"}
       /\ cres' = [cres EXCEPT ![t] = IF cacheType = "noop" THEN NoOpIsProcessed(j.key)
                                      ELSE "false"]
       /\ pc' = [pc EXCEPT ![t] = "checked"]
       /\ job' = [job EXCEPT ![t] = j]
       /\ UNCHANGED <<cacheVars, redis, recency, now, last>>

\* a Process* call of goroutine t returns r
Return(t, r) ==
    /\ pc' = [pc EXCEPT ![t] = "idle"]
    /\ job' = [job EXCEPT ![t] = NoJob]
    /\ cres' = [cres EXCEPT ![t] = "none"]
    /\ hres' = [hres EXCEPT ![t] = "none"]
    /\ ret' = r

\* a Process* call of goroutine t begins
Begin(t) ==
    /\ pc[t] = "idle"
    /\ calls < MaxCalls
    /\ calls' = calls + 1
    /\ overlap' = (overlap \/ \E u \in Threads \ {t} : pc[u] # "idle")
    /\ UNCHANGED <<cacheType, handlerSet, handled, hres>>

(***************************************************************************)
(* Processor.ProcessActivity up to the answer of the cache: validation,    *)
(* the dedup key, IsProcessed.  ctx is the state of the caller's context   *)
(* when the call starts, "live" or "cancelled"; the call hands it on to    *)
(* the cache and the handler and never looks at it.                        *)
(***************************************************************************)
ProcessActivityWith(t, i, ctx) ==
    LET activity == AllEthActivities[i]
        v == ValidateBeforeCache(activity)
    IN  /\ Begin(t)
        /\ IF v # "ok"
           THEN /\ ret' = v
                /\ UNCHANGED <<cacheVars, now, pc, job, cres, redis, last, recency>>
           ELSE /\ UNCHANGED ret
                /\ CacheIsProcessed(t, [kind |-> "eth", key |-> UniqueID(activity),
                                        in |-> i, ctx |-> ctx])

\* ProcessActivity called with a context that is not cancelled
ProcessActivity(t, i) == ProcessActivityWith(t, i, "live") /\ UNCHANGED <<hook, sideVars>>

\* ProcessActivity called with a context that is already cancelled
ProcessActivityCancelled(t, i) ==
    ProcessActivityWith(t, i, "cancelled") /\ UNCHANGED <<hook, sideVars>>

(***************************************************************************)
(* Processor.ProcessTransaction up to the answer of the cache, called with *)
(* a context in state ctx.                                                 *)
(***************************************************************************)
ProcessTransactionWith(t, i, ctx) ==
    LET alchemyTx == AllSolanaTransactions[i]
    IN  /\ Begin(t)
        /\ IF ~HasMessage(alchemyTx)
           THEN /\ ret' = "nil"
                /\ UNCHANGED <<cacheVars, now, pc, job, cres, redis, last, recency>>
           ELSE /\ UNCHANGED ret
                /\ CacheIsProcessed(t, [kind |-> "sol", key |-> alchemyTx.Signature,
                                        in |-> i, ctx |-> ctx])

\* ProcessTransaction called with a context that is not cancelled
ProcessTransaction(t, i) == ProcessTransactionWith(t, i, "live") /\ UNCHANGED <<hook, sideVars>>

\* ProcessTransaction called with a context that is already cancelled
ProcessTransactionCancelled(t, i) ==
    ProcessTransactionWith(t, i, "cancelled") /\ UNCHANGED <<hook, sideVars>>

(***************************************************************************)
(* What a call does once the cache has not reported the event processed:   *)
(* the error it returns, a nil return without an event, or the event for   *)
(* the handler.                                                            *)
(***************************************************************************)
Outcomes(j) ==
    IF j.kind = "eth" THEN {Normalize(AllEthActivities[j.in])}
    ELSE {IF Len(processedTx.NativeTransfers) > 0 \/ Len(processedTx.TokenTransfers) > 0
          THEN [kind |-> "event", tx |-> processedTx]
          ELSE [kind |-> "nil"] :
             processedTx \in ProcessedTransactions(AllSolanaTransactions[j.in])}

\* mutant of Skip: the answer of the cache is ignored
Skip_Never(c) == FALSE

\* mutant of Skip: a failed lookup counts as processed
Skip_FailClosed(c) == c # "false"

\* `if err != nil { warn } else if processed { return nil }`
Skip(c) == c = "true"

\* mutant of AfterHandler: the handler's error is ignored
AfterHandler_AlwaysMark(ok) == "mark"

\* `if err := p.handler(...); err != nil { return ... }`
AfterHandler(ok) == IF ok THEN "mark" ELSE "return"

\* the handler is called by goroutine t with the event o and answers ok
Handled(t, ok, o) ==
    [key |-> job[t].key, at |-> now, ok |-> ok, cres |-> cres[t],
     kind |-> job[t].kind, in |-> job[t].in, event |-> o]

(***************************************************************************)
(* Process*, from the answer of the cache to the return of the handler.    *)
(***************************************************************************)
InvokeHandler(t) ==
    /\ pc[t] = "checked"
    /\ UNCHANGED <<cacheVars, now, redis, last, recency, cacheType, handlerSet,
                   calls, overlap, hook, sideVars>>
    /\ IF Skip(cres[t])
       THEN Return(t, "nil") /\ UNCHANGED handled
       ELSE \E o \in Outcomes(job[t]) :
              IF o.kind = "error" THEN Return(t, o.err) /\ UNCHANGED handled
              ELSE IF o.kind = "nil" THEN Return(t, "nil") /\ UNCHANGED handled
              ELSE IF ~handlerSet
              THEN /\ pc' = [pc EXCEPT ![t] = "mark"]
                   /\ UNCHANGED <<job, cres, hres, ret, handled>>
              ELSE \E ok \in BOOLEAN :
                     /\ handled' = Append(handled, Handled(t, ok, o))
                     /\ IF AfterHandler(ok) = "mark"
                        THEN /\ pc' = [pc EXCEPT ![t] = "mark"]
                             /\ hres' = [hres EXCEPT ![t] = IF ok THEN "ok" ELSE "err"]
                             /\ UNCHANGED <<job, cres, ret>>
                        ELSE Return(t, "handler error")

(***************************************************************************)
(* Process*, the end: p.cache.MarkProcessed(key, 24h) for the backend      *)
(* held, whose error is only logged, and `return nil`.                     *)
(***************************************************************************)
MarkAndReturn(t) ==
    /\ pc[t] = "mark"
    /\ Return(t, "nil")
    /\ UNCHANGED <<cacheType, handlerSet, handled, calls, overlap, hook, sideVars>>
    /\ \/ /\ cacheType = "memory"
          /\ MemMarkProcessed(job[t].key, TTL24h)
          /\ UNCHANGED redis
       \/ /\ cacheType = "redis"
          /\ \E err \in BOOLEAN :
               IF err
               THEN /\ last' = Step("markErr", NoKey, 0, FALSE, FALSE)
                    /\ UNCHANGED redis
               ELSE /\ last' = Step("mark", NoKey, 0, FALSE, FALSE)
                    /\ redis' = RedisSet(redis, job[t].key, TTL24h, now)
          /\ UNCHANGED <<cacheVars, recency, now>>
       \/ /\ cacheType \in {"noop", "nil"}
          /\ UNCHANGED <<cacheVars, redis, recency, now, last>>

(***************************************************************************)
(* NewProcessor over each backend, with a handler or with none.            *)
(***************************************************************************)
InitProc ==
    /\ cacheType \in {"memory", "redis", "noop", "nil"}
    /\ IF cacheType = "memory"
       THEN \E size \in 1..MaxCap, lru \in BOOLEAN : NewMemoryCache(size, lru)
       ELSE NewMemoryCache(0, FALSE)
    /\ handlerSet \in BOOLEAN
    /\ now = 0
    /\ InitThreads
    /\ redis = <<>>
    /\ handled = <<>>
    /\ calls = 0
    /\ overlap = FALSE
    /\ last = NoStep
    /\ recency = <<>>
    /\ hook = NoHook
    /\ InitSide

NextProc ==
    \/ \E t \in Threads, i \in DOMAIN EthActivities : ProcessActivity(t, i)
    \/ \E t \in Threads, i \in DOMAIN SolanaTransactions : ProcessTransaction(t, i)
    \/ \E t \in Threads : MemIsProcessedDelete(t)
    \/ \E t \in Threads : MemIsProcessedTouch(t)
    \/ \E t \in Threads : InvokeHandler(t)
    \/ \E t \in Threads : MarkAndReturn(t)
    \/ cleanupExpired
    \/ Tick

SpecProc == InitProc /\ [][NextProc]_vars

(***************************************************************************)
(* Reading the processor's steps off the state.                            *)
(***************************************************************************)
\* goroutine t leaves the point where the cache has answered
LeavesCheck(t) == pc[t] = "checked" /\ pc'[t] # "checked"

\* goroutine t calls MarkProcessed and returns
Marks(t) == pc[t] = "mark" /\ pc'[t] = "idle" /\ cacheType # "nil"

\* the handler is invoked in this step, for the event with dedup key k
Invoked(k) == /\ Len(handled') = Len(handled) + 1
              /\ handled'[Len(handled')].key = k

\* every handler invocation so far was for one and the same event and succeeded
SameEventOnly == \A i \in DOMAIN handled : handled[i].key = handled[1].key /\ handled[i].ok

\* no two handler invocations fall into one TTL window
OncePerWindow ==
    \A i, j \in DOMAIN handled : i < j => handled[j].at > handled[i].at + TTL24h

\* the event of goroutine t is valid and not empty: it is one for the handler
IsEvent(t) == \A o \in Outcomes(job[t]) : o.kind = "event"

(***************************************************************************)
(* C1: with the in-process cache and a handler that always succeeds,       *)
(* deliveries of one event, concurrent ones included, invoke the handler   *)
(* at most once per TTL window.                                            *)
(***************************************************************************)
C1_AtMostOncePerWindow ==
    (cacheType = "memory" /\ handlerSet /\ SameEventOnly) => OncePerWindow

(***************************************************************************)
(* C2: with the in-process cache and a handler that succeeds, deliveries   *)
(* of one valid non-zero activity that never overlap invoke the handler    *)
(* once per TTL window, and a delivery that follows the invocation within  *)
(* the window returns nil without invoking the handler.                    *)
(***************************************************************************)
C2_SequentialIdempotence ==
    /\ [](  (cacheType = "memory" /\ handlerSet /\ ~overlap /\ SameEventOnly)
            => OncePerWindow)
    /\ [][ \A t \in Threads :
             ( /\ LeavesCheck(t)
               /\ job[t].kind = "eth"
               /\ cacheType = "memory" /\ handlerSet /\ ~overlap /\ SameEventOnly
               /\ \E i \in DOMAIN handled :
                     handled[i].key = job[t].key /\ now <= handled[i].at + TTL24h )
             => (pc'[t] = "idle" /\ ret' = "nil" /\ handled' = handled) ]_vars

C2_Witness ==
    /\ cacheType = "memory" /\ handlerSet /\ ~overlap
    /\ calls = 2
    /\ \A t \in Threads : pc[t] = "idle"
    /\ Len(handled) = 1
    /\ handled[1].key = UniqueID(Transfer) /\ handled[1].in = 1 /\ handled[1].ok
    /\ last = Step("isRead", UniqueID(Transfer), 0, TRUE, TRUE)
    /\ ret = "nil"

(***************************************************************************)
(* C3: MarkProcessed is called only after the handler has been invoked     *)
(* and has succeeded for the event.                                        *)
(***************************************************************************)
C3_MarkOnlyAfterHandler ==
    [][ \A t \in Threads : Marks(t) => hres[t] = "ok" ]_vars

(***************************************************************************)
(* C4: when the handler returns an error, the call returns an error and    *)
(* leaves the cache as it was; no call goes on to MarkProcessed after a    *)
(* failed handler; and a delivery of an event whose handler has only ever  *)
(* failed is not reported processed and invokes the handler again.         *)
(***************************************************************************)
C4_HandlerError ==
    /\ [][ \A t \in Threads :
             (LeavesCheck(t) /\ Invoked(job[t].key) /\ ~handled'[Len(handled')].ok)
             => /\ pc'[t] = "idle"
                /\ ret' = "handler error"
                /\ UNCHANGED <<entries, accessOrder, redis>> ]_vars
    /\ [](handlerSet => \A t \in Threads : pc[t] = "mark" => hres[t] = "ok")
    /\ [][ \A t \in Threads :
             ( /\ LeavesCheck(t) /\ handlerSet /\ IsEvent(t)
               /\ \E i \in DOMAIN handled : handled[i].key = job[t].key
               /\ \A i \in DOMAIN handled : handled[i].key = job[t].key => ~handled[i].ok )
             => (cres[t] # "true" /\ Invoked(job[t].key)) ]_vars

C4_Witness ==
    /\ cacheType = "memory" /\ ~overlap
    /\ Len(handled) = 2
    /\ handled[1].key = handled[2].key
    /\ ~handled[1].ok /\ ~handled[2].ok
    /\ \A t \in Threads : pc[t] = "idle"
    /\ ret = "handler error"
    /\ entries = <<>>

(***************************************************************************)
(* C5: the cache fails open.  When IsProcessed returns an error the event  *)
(* counts as not processed: a valid, non-empty event is handed to the      *)
(* handler.  When MarkProcessed returns an error after the handler         *)
(* succeeded, the call still returns nil.                                  *)
(***************************************************************************)
C5_FailOpen ==
    /\ [][ \A t \in Threads :
             (LeavesCheck(t) /\ cres[t] = "error" /\ handlerSet /\ IsEvent(t))
             => Invoked(job[t].key) ]_vars
    /\ [][ \A t \in Threads :
             (Marks(t) /\ last'.op = "markErr")
             => (ret' = "nil" /\ UNCHANGED redis) ]_vars

C5_Witness ==
    /\ cacheType = "redis"
    /\ last.op = "markErr"
    /\ ret = "nil"
    /\ \A t \in Threads : pc[t] = "idle"
    /\ \E i \in DOMAIN handled : handled[i].cres = "error" /\ handled[i].ok


(***************************************************************************)
(* Which step was taken, read off the observation.  Tick is the only step  *)
(* of SpecCache that is no cache step.                                     *)
(***************************************************************************)
MarkStep == last'.op = "mark" /\ now' = now
ReadStep == last'.op = "isRead" /\ now' = now
WriteStepOf(t) == pc[t] \in {"isDel", "isTouch"} /\ pc'[t] # pc[t]

(***************************************************************************)
(* C6.  Round trip: MarkProcessed(key, ttl) with ttl > 0, followed by      *)
(* IsProcessed(key) with no cache step in between and the clock not past   *)
(* the deadline now + ttl of the mark, returns true, for every maxSize and *)
(* either eviction mode.                                                   *)
(***************************************************************************)
C6_RoundTrip ==
    [][ (/\ last.op = "mark"
         /\ ReadStep
         /\ last'.key = last.key
         /\ now <= last.exp)
        => last'.res = TRUE ]_vars

\* an IsProcessed that came right after the MarkProcessed of its key said true
C6_Witness ==
    /\ last.op = "isRead"
    /\ last.afterMark
    /\ last.res

(***************************************************************************)
(* C7.  Expiry: IsProcessed(key) on a stored key whose expiry the clock    *)
(* has passed returns false and goes on to its write phase, and when that  *)
(* write phase is done the key is neither stored nor in the access order,  *)
(* so it no longer counts toward maxSize.                                  *)
(***************************************************************************)
C7_Expiry ==
    [][ /\ (/\ ReadStep
            /\ last'.key \in DOMAIN entries
            /\ entries[last'.key] < now)
           => /\ last'.res = FALSE
              /\ \E t \in Threads : /\ pc[t] = "idle"
                                    /\ pc'[t] = "isDel"
                                    /\ job'[t].key = last'.key
        /\ \A t \in Threads :
             (pc[t] = "isDel" /\ pc'[t] # "isDel")
             => /\ job[t].key \notin DOMAIN entries'
                /\ job[t].key \notin Range(accessOrder')
                /\ Cardinality(DOMAIN entries') = Cardinality((DOMAIN entries) \ {job[t].key})
      ]_vars

\* an expired entry was looked up and deleted, in LRU mode, other entries staying
C7_Witness ==
    /\ last.op = "isDel"
    /\ enableLRU
    /\ DOMAIN entries # {}
    /\ Len(accessOrder) = Cardinality(DOMAIN entries)

(***************************************************************************)
(* C8.  LRU eviction: in LRU mode (maxSize >= 1), MarkProcessed of a key   *)
(* that is not stored, on a store that holds maxSize entries, evicts       *)
(* exactly one entry: the stored key whose latest touch is the oldest.     *)
(***************************************************************************)
C8_LRUEviction ==
    [][ (/\ MarkStep
         /\ enableLRU
         /\ maxSize >= 1
         /\ Cardinality(DOMAIN entries) = maxSize
         /\ last'.key \notin DOMAIN entries)
        => /\ recency # <<>>
           /\ DOMAIN entries' = ((DOMAIN entries) \ {Head(recency)}) \cup {last'.key}
      ]_vars

(***************************************************************************)
(* C9.  MarkProcessed of a key that is already stored keeps the set of     *)
(* stored keys and the expiry of every other key, for every maxSize and in *)
(* both eviction modes.                                                    *)
(***************************************************************************)
C9_MarkIdempotent ==
    [][ (MarkStep /\ last'.key \in DOMAIN entries)
        => /\ DOMAIN entries' = DOMAIN entries
           /\ \A j \in (DOMAIN entries) \ {last'.key} : entries'[j] = entries[j]
      ]_vars

(***************************************************************************)
(* C10.  IsProcessed(k) adds no key, removes no key other than k, changes  *)
(* no expiry, and deletes k's entry only when that entry is expired.       *)
(***************************************************************************)
IsProcessedFrame(k) ==
    /\ DOMAIN entries' \subseteq DOMAIN entries
    /\ (DOMAIN entries) \ (DOMAIN entries') \subseteq {k}
    /\ \A j \in DOMAIN entries' : entries'[j] = entries[j]
    /\ (k \in DOMAIN entries /\ k \notin DOMAIN entries') => entries[k] < now

C10_IsProcessedFrame ==
    [][ /\ ReadStep => IsProcessedFrame(last'.key)
        /\ \A t \in Threads : WriteStepOf(t) => IsProcessedFrame(job[t].key)
      ]_vars

(***************************************************************************)
(* C11.  Under every interleaving, a stored entry that has not expired is  *)
(* removed only by a capacity eviction of MarkProcessed: never by the      *)
(* write phase of an IsProcessed that saw an earlier, expired entry.       *)
(***************************************************************************)
C11_NoStaleDelete ==
    [][ \A k \in DOMAIN entries :
          (k \notin DOMAIN entries' /\ ~Expired(entries[k], now))
          => last'.op = "mark" ]_vars

(***************************************************************************)
(* The processor over the in-process cache after a first delivery: the     *)
(* transfer was handled and marked at time 0.                              *)
(***************************************************************************)
InitWarm ==
    /\ cacheType = "memory"
    /\ \E size \in 1..MaxCap, lru \in BOOLEAN :
          /\ maxSize = size
          /\ enableLRU = lru
          /\ accessOrder = IF lru THEN <<UniqueID(Transfer)>> ELSE <<>>
          /\ recency = IF lru THEN <<UniqueID(Transfer)>> ELSE <<>>
    /\ entries = (UniqueID(Transfer) :> ExpiresAt(0, TTL24h))
    /\ handlerSet = TRUE
    /\ now = 0
    /\ InitThreads
    /\ redis = <<>>
    /\ handled = <<[key |-> UniqueID(Transfer), at |-> 0, ok |-> TRUE, cres |-> "false",
                    kind |-> "eth", in |-> 1, event |-> Normalize(Transfer)]>>
    /\ calls = 0
    /\ overlap = FALSE
    /\ last = Step("mark", UniqueID(Transfer), TTL24h, FALSE, FALSE)
    /\ hook = NoHook
    /\ InitSide

SpecWarm == InitWarm /\ [][NextProc]_vars

\* the entries a lookup at time t still counts: the cache's content
LiveEntries(m, t) == [k \in {x \in DOMAIN m : ~Expired(m[x], t)} |-> m[k]]

\* goroutine t takes this step
StepOf(t) == pc'[t] # pc[t] \/ job'[t] # job[t]

\* j is a call of ProcessActivity whose computed amount is exactly zero
ZeroCall(j) ==
    /\ j.kind = "eth"
    /\ ComputedAmount(AllEthActivities[j.in]).kind = "amount"
    /\ ComputedAmount(AllEthActivities[j.in]).amount.m = 0

(***************************************************************************)
(* C12.  Zero suppression: no step of a ProcessActivity call whose         *)
(* computed amount is zero invokes the handler, goes on to MarkProcessed   *)
(* or changes what the cache holds, and the call returns nil.              *)
(***************************************************************************)
C12_ZeroSuppression ==
    [][ \A t \in Threads :
          (StepOf(t) /\ (ZeroCall(job[t]) \/ ZeroCall(job'[t])))
          => /\ handled' = handled
             /\ pc'[t] # "mark"
             /\ (pc'[t] = "idle" => ret' = "nil")
             /\ LiveEntries(entries', now) = LiveEntries(entries, now)
             /\ redis' = redis ]_vars

\* the trace address of an activity as the dedup key sees it: none, or a non-empty one
TraceOf(activity) ==
    IF activity.TypeTraceAddress # Nil /\ activity.TypeTraceAddress[1] # <<>>
    THEN activity.TypeTraceAddress
    ELSE Nil

\* two activities are the same sub-event of the same transaction
SameSubEvent(a, b) == a.Hash = b.Hash /\ TraceOf(a) = TraceOf(b)

\* the activities delivered, and the sibling of Transfer with trace address "1"
SubEvents ==
    Range(EthActivities) \cup {[Transfer EXCEPT !.TypeTraceAddress = Some(<<"1">>)]}

\* the handler has been invoked for the sub-event `activity`
HandledSubEvent(activity) ==
    \E i \in DOMAIN handled :
       handled[i].kind = "eth" /\ SameSubEvent(AllEthActivities[handled[i].in], activity)

\* sub-events that differ have different dedup keys
DistinctKeys == \A a, b \in SubEvents : UniqueID(a) = UniqueID(b) => SameSubEvent(a, b)

(***************************************************************************)
(* C13.  Sub-event independence: activities that differ in their trace     *)
(* address (or of which only one has a trace address) have different dedup *)
(* keys, and a valid non-zero activity whose own sub-event has never been  *)
(* handed to the handler is never skipped, whatever was processed for its  *)
(* siblings: when its call leaves the cache check the handler is invoked   *)
(* for it.                                                                 *)
(***************************************************************************)
C13_SubEventIndependence ==
    [][ /\ DistinctKeys
        /\ \A t \in Threads :
             ( /\ handlerSet
               /\ LeavesCheck(t)
               /\ job[t].kind = "eth"
               /\ IsEvent(t)
               /\ ~HandledSubEvent(AllEthActivities[job[t].in]) )
             => /\ Invoked(job[t].key)
                /\ handled'[Len(handled')].in = job[t].in ]_vars

\* the transfer was handled and marked, then its sibling with trace address
\* "0" was delivered within the same window and handled too
C13_Witness ==
    /\ cacheType = "memory"
    /\ ~overlap
    /\ \A t \in Threads : pc[t] = "idle"
    /\ Len(handled) = 2
    /\ handled[1].in = 1 /\ handled[1].ok /\ handled[1].kind = "eth"
    /\ handled[2].in = 2 /\ handled[2].ok /\ handled[2].kind = "eth"
    /\ handled[2].at = handled[1].at
    /\ handled[2].cres = "false"
    /\ handled[1].key # handled[2].key
    /\ {handled[1].key, handled[2].key} \subseteq DOMAIN entries

\* an activity that one of ProcessActivity's validations rejects
Malformed(activity) ==
    ValidateBeforeCache(activity) # "ok" \/ ~validateBlockNumber(activity.BlockNum)

\* the deliveries of malformed activities
MalformedInputs == {i \in DOMAIN EthActivities : Malformed(AllEthActivities[i])}

\* the errors with which ProcessActivity reports a rejected activity
ValidationErrors ==
    {"invalid to address", "invalid from address", "invalid transaction hash",
     "invalid block number"}

\* this step leaves the handler log and what the cache holds as they were
CacheUntouched ==
    /\ handled' = handled
    /\ LiveEntries(entries', now) = LiveEntries(entries, now)
    /\ redis' = redis

(***************************************************************************)
(* C14.  A ProcessActivity call on an activity with a malformed address,   *)
(* hash or block number returns a validation error, and none of its steps  *)
(* invokes the handler, goes on to MarkProcessed or changes what the cache *)
(* holds, whatever the cache holds for the activity's dedup key.           *)
(***************************************************************************)
C14_ValidationAborts ==
    [][ \A t \in Threads : \A i \in MalformedInputs :
             /\ ProcessActivity(t, i)
                => CacheUntouched /\ (pc'[t] = "idle" => ret' \in ValidationErrors)
             /\ (StepOf(t) /\ job[t].kind = "eth" /\ job[t].in = i)
                => /\ CacheUntouched
                   /\ pc'[t] # "mark"
                   /\ (pc'[t] = "idle" => ret' \in ValidationErrors) ]_vars

(***************************************************************************)
(* The processors when every caller's context is already cancelled at the  *)
(* start of its call.                                                      *)
(***************************************************************************)
NextCtx ==
    \/ \E t \in Threads, i \in DOMAIN EthActivities : ProcessActivityCancelled(t, i)
    \/ \E t \in Threads, i \in DOMAIN SolanaTransactions : ProcessTransactionCancelled(t, i)
    \/ \E t \in Threads : MemIsProcessedDelete(t)
    \/ \E t \in Threads : MemIsProcessedTouch(t)
    \/ \E t \in Threads : InvokeHandler(t)
    \/ \E t \in Threads : MarkAndReturn(t)
    \/ cleanupExpired
    \/ Tick

SpecCtx == InitProc /\ [][NextCtx]_vars

(***************************************************************************)
(* C15.  No step of a ProcessActivity or ProcessTransaction call whose     *)
(* context was already cancelled when it started invokes the handler or    *)
(* changes what the cache holds.                                           *)
(***************************************************************************)
C15_CancelledAborts ==
    [][ \A t \in Threads :
          (StepOf(t) /\ (job[t].ctx = "cancelled" \/ job'[t].ctx = "cancelled"))
          => CacheUntouched ]_vars

(***************************************************************************)
(* The processors over the no-op backend, which newCache returns when      *)
(* caching is disabled.  There is no cache state and no sweeper.           *)
(***************************************************************************)
InitNoop == InitProc /\ cacheType = "noop"

NextNoop ==
    \/ \E t \in Threads, i \in DOMAIN EthActivities : ProcessActivity(t, i)
    \/ \E t \in Threads, i \in DOMAIN SolanaTransactions : ProcessTransaction(t, i)
    \/ \E t \in Threads : InvokeHandler(t)
    \/ \E t \in Threads : MarkAndReturn(t)
    \/ Tick

SpecNoop == InitNoop /\ [][NextNoop]_vars

(***************************************************************************)
(* C16.  With the no-op backend IsProcessed answers false whatever was     *)
(* marked before, so every delivery is treated as new: each delivery of a  *)
(* valid non-zero event to a processor with a handler invokes the handler, *)
(* however often the event was delivered and marked already.               *)
(***************************************************************************)
C16_NoopAlwaysNovel ==
    [][ \A t \in Threads :
          LeavesCheck(t)
          => /\ cres[t] = "false"
             /\ (handlerSet /\ IsEvent(t))
                => /\ Invoked(job[t].key)
                   /\ handled'[Len(handled')].in = job[t].in ]_vars

\* the transfer was delivered twice, one call after the other, at the same
\* time, and the handler was invoked both times
C16_Witness ==
    /\ cacheType = "noop"
    /\ ~overlap
    /\ calls = 2
    /\ \A t \in Threads : pc[t] = "idle"
    /\ ret = "nil"
    /\ Len(handled) = 2
    /\ \A i \in {1, 2} : /\ handled[i].kind = "eth"
                         /\ handled[i].in = 1
                         /\ handled[i].ok
                         /\ handled[i].cres = "false"
    /\ handled[2].at = handled[1].at

(***************************************************************************)
(* The extraction on its own: one delivery of any activity or transaction  *)
(* to a processor with a handler and no caching.                           *)
(***************************************************************************)
InitNorm == InitProc /\ cacheType \in {"noop", "nil"} /\ handlerSet

NextNorm ==
    \/ calls = 0 /\ \E t \in Threads, i \in DOMAIN AllEthActivities : ProcessActivity(t, i)
    \/ calls = 0 /\ \E t \in Threads, i \in SingleIndexes : ProcessTransaction(t, i)
    \/ \E t \in Threads : InvokeHandler(t)
    \/ \E t \in Threads : MarkAndReturn(t)

SpecNorm == InitNorm /\ [][NextNorm]_vars

\* the categories of non-fungible tokens
NftCategories == {CatErc721, CatErc1155}

(***************************************************************************)
(* C17.  Every event handed to the handler for an activity of category     *)
(* erc721 or erc1155 carries the amount 1, whatever the activity's raw     *)
(* contract and value are.                                                 *)
(***************************************************************************)
C17_NftAmountOne ==
    \A i \in DOMAIN handled :
       (handled[i].kind = "eth"
          /\ ToLower(AllEthActivities[handled[i].in].Category) \in NftCategories)
       => handled[i].event.amount = Big(1, 0)

(***************************************************************************)
(* C18.  No event handed to the handler carries a negative amount: neither *)
(* the amount of an Ethereum activity nor the lamports of a Solana native  *)
(* transfer.  (A token transfer's amount is read as an unsigned integer.)  *)
(***************************************************************************)
C18_AmountNotNegative ==
    \A i \in DOMAIN handled :
       IF handled[i].kind = "eth"
       THEN handled[i].event.amount.m >= 0
       ELSE \A n \in DOMAIN handled[i].event.tx.NativeTransfers :
               handled[i].event.tx.NativeTransfers[n].Amount >= 0

\* j is a call of ProcessTransaction
SolCall(j) == j.kind = "sol"

\* j is a call of ProcessTransaction on a transaction without any transfer
NoTransfer(j) == SolCall(j) /\ \A o \in Outcomes(j) : o.kind = "nil"

TokenTransfersOf(i) == handled[i].event.tx.TokenTransfers

\* the SPL Token instructions of the transaction of the i-th handler call
InstructionsOf(i) ==
    LET alchemyTx == AllSolanaTransactions[handled[i].in]
        msg == alchemyTx.Transaction[1].Message[1]
    IN  AllInstructions(msg.AccountKeys, msg, alchemyTx.Meta[1])

\* a TransferChecked instruction of the i-th handler call's transaction names mint
NamesMint(i, mint) ==
    \E n \in DOMAIN InstructionsOf(i) :
       LET in == InstructionsOf(i)[n]
           accountKeys ==
               AllSolanaTransactions[handled[i].in].Transaction[1].Message[1].AccountKeys
       IN  /\ in.Data.ok
           /\ Len(in.Data.bytes) >= 1
           /\ in.Data.bytes[1] = OpTransferChecked
           /\ Len(in.Accounts) >= 2
           /\ InRange(in.Accounts[2], accountKeys)
           /\ KeyAt(accountKeys, in.Accounts[2]) = mint

\* the transaction of the i-th handler call holds a legacy Transfer instruction
HasLegacyTransfer(i) ==
    \E n \in DOMAIN InstructionsOf(i) :
       LET in == InstructionsOf(i)[n]
       IN  in.Data.ok /\ Len(in.Data.bytes) >= 1 /\ in.Data.bytes[1] = OpTransfer

(***************************************************************************)
(* C20.  Every token transfer handed to the handler carries a mint that is *)
(* a value of the currency-to-mint table and a currency that the table     *)
(* maps to that mint; the mint is the one a TransferChecked instruction of *)
(* the transaction names or the one resolved for a legacy Transfer.  So an *)
(* instruction whose mint is not in the table yields no token transfer.    *)
(***************************************************************************)
C20_MintInTable ==
    \A i \in DOMAIN handled :
       handled[i].kind = "sol"
       => \A n \in DOMAIN TokenTransfersOf(i) :
             LET tr == TokenTransfersOf(i)[n]
             IN  /\ tr.Mint \in Mints
                 /\ tr.Currency \in DOMAIN TokenMints
                 /\ TokenMints[tr.Currency] = tr.Mint
                 /\ NamesMint(i, tr.Mint) \/ HasLegacyTransfer(i)

\* a TransferChecked instruction naming the mint that two currencies share
\* was handed to the handler as a transfer in the second of them
C20_Witness ==
    /\ Len(handled) = 1
    /\ handled[1].kind = "sol"
    /\ Len(TokenTransfersOf(1)) = 1
    /\ TokenTransfersOf(1)[1].Mint = TokenMints["WSOL"]
    /\ TokenTransfersOf(1)[1].Currency = "WSOL"
    /\ NamesMint(1, TokenMints["WSOL"])
    /\ ~HasLegacyTransfer(1)

(***************************************************************************)
(* ProcessActivity on its own, over each backend and with a handler: the   *)
(* transfer and its sibling with a trace address are delivered.  C13 is    *)
(* checked here.                                                           *)
(***************************************************************************)
InitSub == InitProc /\ handlerSet

NextSub ==
    \/ \E t \in Threads, i \in {1, 2} : ProcessActivity(t, i)
    \/ \E t \in Threads : MemIsProcessedDelete(t)
    \/ \E t \in Threads : MemIsProcessedTouch(t)
    \/ \E t \in Threads : InvokeHandler(t)
    \/ \E t \in Threads : MarkAndReturn(t)
    \/ cleanupExpired
    \/ Tick

SpecSub == InitSub /\ [][NextSub]_vars

(***************************************************************************)
(* ProcessTransaction on its own, over each backend, with a handler or     *)
(* with none.  C19 is checked here.                                        *)
(***************************************************************************)
NextSol ==
    \/ \E t \in Threads, i \in DOMAIN SolanaTransactions : ProcessTransaction(t, i)
    \/ \E t \in Threads : MemIsProcessedDelete(t)
    \/ \E t \in Threads : MemIsProcessedTouch(t)
    \/ \E t \in Threads : InvokeHandler(t)
    \/ \E t \in Threads : MarkAndReturn(t)
    \/ cleanupExpired
    \/ Tick

SpecSol == InitProc /\ [][NextSol]_vars

\* the n-th token transfer of the i-th handler call stems from a
\* TransferChecked instruction with at least four accounts and the data
\* <<12>> \o bytes
FromTransferChecked(i, n, bytes) ==
    /\ TokenTransfersOf(i)[n].AmountBytes = bytes
    /\ \E k \in DOMAIN InstructionsOf(i) :
          LET in == InstructionsOf(i)[k]
          IN  /\ in.Data.ok
              /\ in.Data.bytes = <<OpTransferChecked>> \o bytes
              /\ Len(in.Accounts) >= 4

\* the unsigned integers 1 and 2^56 in base 256
One == <<1>>
TwoTo56 == <<1, 0, 0, 0, 0, 0, 0, 0>>

(***************************************************************************)
(* C21 as stated: a TransferChecked instruction with the data              *)
(* [12, 0,0,0,0,0,0,0,1] yields a token transfer whose raw amount is 1.    *)
(***************************************************************************)
C21_HighByteIsOne ==
    \A i \in DOMAIN handled :
       handled[i].kind = "sol"
       => \A n \in DOMAIN TokenTransfersOf(i) :
             FromTransferChecked(i, n, AmountHighOne)
             => TokenTransfersOf(i)[n].TokenAmount.raw = One

(***************************************************************************)
(* C21, amended.  The eight bytes after the opcode are read least          *)
(* significant byte first: the data [12, 1,0,0,0,0,0,0,0] yields the raw   *)
(* amount 1, the data [12, 0,0,0,0,0,0,0,1] yields 2^56; the token amount  *)
(* is the raw amount divided by 10^decimals of the resolved currency, 6    *)
(* for USDC and USDT and 9 otherwise.                                      *)
(***************************************************************************)
C21_LittleEndianAmount ==
    \A i \in DOMAIN handled :
       handled[i].kind = "sol"
       => \A n \in DOMAIN TokenTransfersOf(i) :
             LET tr == TokenTransfersOf(i)[n]
             IN  /\ FromTransferChecked(i, n, AmountOne) => tr.TokenAmount.raw = One
                 /\ FromTransferChecked(i, n, AmountHighOne) => tr.TokenAmount.raw = TwoTo56
                 /\ tr.TokenAmount.decimals = IF tr.Currency \in {"USDC", "USDT"} THEN 6 ELSE 9

\* the instruction of the claim was handed to the handler as a USDC transfer
C21_Witness ==
    /\ Len(handled) = 1
    /\ handled[1].kind = "sol"
    /\ Len(TokenTransfersOf(1)) = 1
    /\ FromTransferChecked(1, 1, AmountHighOne)
    /\ TokenTransfersOf(1)[1].Currency = "USDC"
    /\ TokenTransfersOf(1)[1].TokenAmount = [raw |-> TwoTo56, decimals |-> 6]

(***************************************************************************)
(* Both backends under direct callers that mark with a ttl of zero or      *)
(* less: a MemoryCache and a RedisCache side by side.  A call to the       *)
(* remote store may fail.                                                  *)
(***************************************************************************)
NonPositiveTTLs == (0 - MaxTTL)..0

\* the keys these callers use
TTLKeys == {<<"A">>}

\* RedisCache.MarkProcessed called directly
RedisMarkProcessed(k, ttl) ==
    /\ \E err \in BOOLEAN :
          IF err
          THEN /\ last' = Step("redisMarkErr", k, 0, FALSE, FALSE)
               /\ UNCHANGED redis
          ELSE /\ last' = Step("redisMark", k, 0, FALSE, FALSE)
               /\ redis' = RedisSet(redis, k, ttl, now)
    /\ UNCHANGED <<cacheVars, threadVars, cacheType, handlerSet, handled, calls,
                   overlap, recency, now, hook, sideVars>>

\* RedisCache.IsProcessed called directly
RedisIsProcessed(k) ==
    /\ \E err \in BOOLEAN :
          last' = IF err THEN Step("redisIsErr", k, 0, FALSE, FALSE)
                  ELSE Step("redisIsRead", k, 0, RedisExists(k), FALSE)
    /\ UNCHANGED <<cacheVars, threadVars, procVars, recency, now, hook, sideVars>>

InitTTL ==
    /\ \E size \in 1..MaxCap, lru \in BOOLEAN : NewMemoryCache(size, lru)
    /\ now = 0
    /\ InitThreads
    /\ cacheType = "memory"
    /\ redis = <<>>
    /\ handlerSet = TRUE
    /\ handled = <<>>
    /\ calls = 0
    /\ overlap = FALSE
    /\ last = NoStep
    /\ recency = <<>>
    /\ hook = NoHook
    /\ InitSide

NextTTL ==
    \/ \E t \in Threads, k \in TTLKeys : CallIsProcessed(t, k)
    \/ \E t \in Threads, k \in TTLKeys, ttl \in NonPositiveTTLs : CallMarkProcessed(t, k, ttl)
    \/ \E k \in TTLKeys : RedisIsProcessed(k)
    \/ \E k \in TTLKeys, ttl \in NonPositiveTTLs : RedisMarkProcessed(k, ttl)
    \/ \E t \in Threads : MemIsProcessedDelete(t)
    \/ \E t \in Threads : MemIsProcessedTouch(t)
    \/ cleanupExpired
    \/ Tick

SpecTTL == InitTTL /\ [][NextTTL]_vars

(***************************************************************************)
(* C22.  Neither backend rejects a MarkProcessed with ttl <= 0, so both    *)
(* have to treat the key as already expired: when every MarkProcessed so   *)
(* far had a ttl of zero or less, every IsProcessed that answers, on the   *)
(* in-process or on the remote backend, reports the key as not processed.  *)
(***************************************************************************)
C22_NonPositiveTTL ==
    [][ (last' # last /\ last'.op \in {"isRead", "redisIsRead"})
        => ~last'.res ]_vars

(***************************************************************************)
(* The webhook endpoint: Verifier.Verify and Handler.HandleWebhook.        *)
(* A request body is a size, whether it is JSON of the payload type, and   *)
(* the activities or transactions it lists (indexes into the inputs).  A   *)
(* MAC is the pair of the key and the message it was computed from: two    *)
(* MACs are equal exactly when both are.                                   *)
(***************************************************************************)
MaxBody == 2

Secrets == {"", "k"}
Methods == {"GET", "POST"}
Bodies ==
    { NoBody,
      [size |-> 1, json |-> "bad", items |-> <<>>],
      [size |-> 1, json |-> "ok", items |-> <<>>],
      [size |-> 1, json |-> "ok", items |-> <<1>>],
      [size |-> MaxBody, json |-> "ok", items |-> <<1, 2>>] }

\* hmac.New(sha256.New, key), Write(payload), Sum(nil)
HMAC(key, payload) == [key |-> key, msg |-> payload]

\* hex.EncodeToString: lower-case digits
HexEncode(mac) == <<"hex", mac>>

\* the same digits in upper case
UpperHex(mac) == <<"HEX", mac>>

\* values of the X-Alchemy-Signature header; <<>> when the header is missing
Signatures ==
    {<<>>} \cup {HexEncode(HMAC(k, b)) : k \in Secrets, b \in Bodies}
           \cup {UpperHex(HMAC(k, b)) : k \in Secrets \ {""}, b \in Bodies \ {NoBody}}

Requests == [method : Methods, body : Bodies, signature : Signatures]

\* mutant of Verify: an empty secret is used like any other
Verify_EmptySecret(secret, payload, signature) ==
    IF signature = <<>> THEN "signature header is missing"
    ELSE IF signature # HexEncode(HMAC(secret, payload)) THEN "invalid signature"
    ELSE "nil"

\* Verifier.Verify
Verify(secret, payload, signature) ==
    IF secret = "" THEN "signature secret not configured"
    ELSE IF signature = <<>> THEN "signature header is missing"
    ELSE IF signature # HexEncode(HMAC(secret, payload)) THEN "invalid signature"
    ELSE "nil"

\* http.MaxBytesReader and io.ReadAll: the body, or the error of a body over the limit
ReadAll(body, limit) == IF body.size > limit THEN "too large" ELSE "nil"

\* the response of HandleWebhook to a request it does not hand on, 0 when it hands it on
Rejection(h, r) ==
    IF r.method # "POST" THEN 405
    ELSE IF ReadAll(r.body, h.maxBodySize) # "nil" THEN 413
    ELSE IF r.body.size = 0 THEN 400
    ELSE IF Verify(h.secret, r.body, r.signature) # "nil" THEN 401
    ELSE IF r.body.json # "ok" THEN 500
    ELSE IF r.body.items = <<>> THEN 200
    ELSE 0

(***************************************************************************)
(* Handler.HandleWebhook, from the arrival of the request to the loop over *)
(* the payload: the method, the body, the signature, json.Unmarshal.  A    *)
(* request that fails a test, or lists nothing, is answered at once.       *)
(***************************************************************************)
HandleWebhook(t, r) ==
    /\ pc[t] = "idle"
    /\ ~hook.conn[t].serving
    /\ hook' = IF Rejection(hook, r) # 0
               THEN [hook EXCEPT !.status = Rejection(hook, r)]
               ELSE [hook EXCEPT !.conn[t] = [req |-> r, pending |-> r.body.items,
                                             serving |-> TRUE]]
    /\ UNCHANGED <<cacheVars, threadVars, procVars, now, last, recency, sideVars>>

(***************************************************************************)
(* One turn of the loop of handleEthereumWebhook or handleSolanaWebhook:   *)
(* the next activity or transaction goes to the processor.                 *)
(***************************************************************************)
HandleNext(t) ==
    /\ hook.conn[t].serving
    /\ hook.conn[t].pending # <<>>
    /\ hook' = [hook EXCEPT !.conn[t].pending = Tail(hook.conn[t].pending)]
    /\ IF hook.chainType = "ethereum"
       THEN ProcessActivityWith(t, Head(hook.conn[t].pending), "live")
       ELSE ProcessTransactionWith(t, Head(hook.conn[t].pending), "live")
    /\ UNCHANGED sideVars

\* mutant of LoopError: what the processor returned last is returned
LoopError_Last(err) == err

\* what handleEthereumWebhook or handleSolanaWebhook returns after its loop,
\* err being what the processor returned last: its errors are only logged
LoopError(err) == "nil"

\* the loop is over: 200 OK, or 500 had the loop returned an error
HandleDone(t) ==
    /\ pc[t] = "idle"
    /\ hook.conn[t].serving
    /\ hook.conn[t].pending = <<>>
    /\ hook' = [hook EXCEPT !.conn[t] = NoConn,
                            !.status = IF LoopError(ret) \in {"nil", "none"} THEN 200
                                       ELSE 500]
    /\ UNCHANGED <<cacheVars, threadVars, procVars, now, last, recency, sideVars>>

\* NewEthereumHandler or NewSolanaHandler over a processor without a cache
InitHook ==
    /\ NewMemoryCache(0, FALSE)
    /\ cacheType = "nil"
    /\ handlerSet = TRUE
    /\ now = 0
    /\ InitThreads
    /\ redis = <<>>
    /\ handled = <<>>
    /\ calls = 0
    /\ overlap = FALSE
    /\ last = NoStep
    /\ recency = <<>>
    /\ \E s \in Secrets, m \in 1..MaxBody, c \in {"ethereum", "solana"} :
          hook = [NoHook EXCEPT !.secret = s, !.maxBodySize = m, !.chainType = c]
    /\ InitSide

NextHook ==
    \/ \E t \in Threads, r \in Requests : HandleWebhook(t, r)
    \/ \E t \in Threads : HandleNext(t)
    \/ \E t \in Threads : HandleDone(t)
    \/ \E t \in Threads : InvokeHandler(t)
    \/ \E t \in Threads : MarkAndReturn(t)

SpecHook == InitHook /\ [][NextHook]_vars

\* the request is a POST with a non-empty body within the limit whose signature
\* header holds the hex HMAC-SHA256 of the body under a configured secret
Authentic(h, r) ==
    /\ r.method = "POST"
    /\ r.body.size > 0
    /\ r.body.size <= h.maxBodySize
    /\ h.secret # ""
    /\ r.signature # <<>>
    /\ r.signature = HexEncode(HMAC(h.secret, r.body))

(***************************************************************************)
(* C23.  A processor is only ever called for a request that was a POST     *)
(* with a non-empty body within the size limit and a signature header that *)
(* passed the HMAC-SHA256 check; in particular never when the configured   *)
(* secret is empty or the header is missing.                               *)
(***************************************************************************)
C23_OnlyVerifiedRequests ==
    [][ calls' # calls
        => \E t \in Threads :
              /\ hook'.conn[t].pending # hook.conn[t].pending
              /\ Authentic(hook, hook.conn[t].req) ]_vars

\* the handler has been called with an activity of a verified request
C23_Witness ==
    /\ calls > 0
    /\ handled # <<>>
    /\ hook.secret # ""

(***************************************************************************)
(* C24.  Capacity bound: a cache built with maxSize >= 1 never stores more *)
(* than maxSize entries, in either eviction mode and whatever the          *)
(* interleaving of its callers.                                            *)
(***************************************************************************)
C24_CapacityBound == maxSize >= 1 => Cardinality(DOMAIN entries) <= maxSize

(***************************************************************************)
(* C25.  In LRU mode the recency list holds exactly the keys of the stored *)
(* entries, each of them once, in every reachable state.                   *)
(***************************************************************************)
C25_AccessOrderMatchesEntries ==
    enableLRU => /\ Range(accessOrder) = DOMAIN entries
                 /\ Len(accessOrder) = Cardinality(DOMAIN entries)

(***************************************************************************)
(* C26.  Non-LRU eviction: MarkProcessed on a store that holds maxSize     *)
(* entries (maxSize >= 1) removes exactly one of them before it inserts    *)
(* its key, an expired one whenever an expired entry is stored; a live     *)
(* entry is removed only when no stored entry is expired.  The entries it  *)
(* does not remove keep their expiry.                                      *)
(***************************************************************************)
C26_NonLRUEviction ==
    [][ (/\ MarkStep
         /\ ~enableLRU
         /\ maxSize >= 1
         /\ Cardinality(DOMAIN entries) = maxSize)
        => \E v \in DOMAIN entries :
              /\ ExpiredKeys(entries, now) # {} => v \in ExpiredKeys(entries, now)
              /\ DOMAIN entries' = ((DOMAIN entries) \ {v}) \cup {last'.key}
              /\ \A j \in (DOMAIN entries) \ {v, last'.key} : entries'[j] = entries[j]
      ]_vars

\* a full store without LRU that holds an expired entry next to a live one:
\* the next MarkProcessed has to choose
C26_Witness ==
    /\ ~enableLRU
    /\ maxSize >= 2
    /\ last.op = "mark"
    /\ Cardinality(DOMAIN entries) = maxSize
    /\ ExpiredKeys(entries, now) # {}
    /\ ExpiredKeys(entries, now) # DOMAIN entries

(***************************************************************************)
(* The native transfers of a transaction as the balance arrays determine   *)
(* them: the credited accounts for which another account is debited, each  *)
(* paired with the lowest debited account.                                 *)
(***************************************************************************)
DebitedOthers(pre, post, i) == {j \in (1..Len(pre)) \ {i} : pre[j] > post[j]}

PairedCredits(pre, post) ==
    {i \in 1..Len(pre) : post[i] > pre[i] /\ DebitedOthers(pre, post, i) # {}}

Lowest(S) == CHOOSE x \in S : \A y \in S : x <= y

\* the n-th smallest element of S
Nth(S, n) == CHOOSE x \in S : Cardinality({y \in S : y <= x}) = n

SameLengths(alchemyTx) ==
    LET keys == alchemyTx.Transaction[1].Message[1].AccountKeys
        meta == alchemyTx.Meta[1]
    IN  /\ Len(meta.PreBalances) = Len(meta.PostBalances)
        /\ Len(meta.PreBalances) = Len(keys)

\* the list T pairs, in increasing order of the credited index, every paired
\* credit of alchemyTx with its lowest debited account, and holds nothing else
PairsCredits(T, alchemyTx) ==
    LET keys == alchemyTx.Transaction[1].Message[1].AccountKeys
        pre == alchemyTx.Meta[1].PreBalances
        post == alchemyTx.Meta[1].PostBalances
    IN  IF ~SameLengths(alchemyTx) THEN T = <<>>
        ELSE /\ Len(T) = Cardinality(PairedCredits(pre, post))
             /\ \A n \in 1..Len(T) :
                   LET i == Nth(PairedCredits(pre, post), n)
                   IN  /\ T[n].ToUserAccount = keys[i]
                       /\ T[n].FromUserAccount = keys[Lowest(DebitedOthers(pre, post, i))]

\* the native transfers that the step of goroutine t from "checked" hands
\* to the handler; none when it returns without calling the handler
NativeHandedOver(t) ==
    IF handled' = handled THEN <<>>
    ELSE handled'[Len(handled')].event.tx.NativeTransfers

\* goroutine t finishes the extraction for a Solana transaction
ExtractionStep(t) ==
    /\ pc[t] = "checked"
    /\ pc'[t] # "checked"
    /\ job[t].kind = "sol"
    /\ ~Skip(cres[t])

(***************************************************************************)
(* C27.  Native transfer extraction: for every account i whose balance     *)
(* rose there is exactly one transfer if some other account's balance      *)
(* fell, from the lowest such account to i, and none otherwise; the        *)
(* transfers come in increasing order of i, one debited account may serve  *)
(* several credited ones, and arrays of differing lengths give no native   *)
(* transfer.                                                               *)
(***************************************************************************)
C27_NativePairing ==
    [][ \A t \in Threads :
          ExtractionStep(t)
          => PairsCredits(NativeHandedOver(t), AllSolanaTransactions[job[t].in]) ]_vars

\* the handler got two native transfers from the same account
C27_Witness ==
    \E n \in DOMAIN handled :
       /\ handled[n].kind = "sol"
       /\ Len(handled[n].event.tx.NativeTransfers) = 2
       /\ handled[n].event.tx.NativeTransfers[1].FromUserAccount
             = handled[n].event.tx.NativeTransfers[2].FromUserAccount
       /\ handled[n].event.tx.NativeTransfers[1].ToUserAccount = BalanceKeys[2]
       /\ handled[n].event.tx.NativeTransfers[2].ToUserAccount = BalanceKeys[3]

\* the smaller of two amounts
Smaller(a, b) == IF a <= b THEN a ELSE b

\* the amounts of the list T are, transfer by transfer, the smaller of what
\* the credited account gained and what the debited account lost
AmountsAreSmaller(T, alchemyTx) ==
    LET pre == alchemyTx.Meta[1].PreBalances
        post == alchemyTx.Meta[1].PostBalances
    IN  \A n \in 1..Len(T) :
           LET i == Nth(PairedCredits(pre, post), n)
               j == Lowest(DebitedOthers(pre, post, i))
           IN  /\ T[n].Amount = Smaller(post[i] - pre[i], pre[j] - post[j])
               /\ T[n].Amount > 0

(***************************************************************************)
(* C28.  The amount of every native transfer from account j to account i   *)
(* is the smaller of post[i] - pre[i] and pre[j] - post[j], and it is      *)
(* strictly positive.                                                      *)
(***************************************************************************)
C28_NativeAmountIsMin ==
    [][ \A t \in Threads :
          ExtractionStep(t)
          => AmountsAreSmaller(NativeHandedOver(t), AllSolanaTransactions[job[t].in]) ]_vars

(***************************************************************************)
(* The token extraction over transactions of several instructions, with a  *)
(* processor that has no cache.                                            *)
(***************************************************************************)
InitTok == InitProc /\ cacheType = "nil" /\ handlerSet

NextTok ==
    \/ calls = 0 /\ \E t \in Threads, i \in MultiIndexes : ProcessTransaction(t, i)
    \/ \E t \in Threads : InvokeHandler(t)
    \/ \E t \in Threads : MarkAndReturn(t)

SpecTok == InitTok /\ [][NextTok]_vars

\* the instruction is one that reports a transfer: run by the SPL Token
\* program, with decodable data of at least nine bytes whose opcode is 3 or
\* 12, enough accounts, and account indexes that name account keys
WellFormed(in, accountKeys) ==
    /\ InRange(in.ProgramIDIndex, accountKeys)
    /\ KeyAt(accountKeys, in.ProgramIDIndex) = SplTokenProgramID
    /\ in.Data.ok
    /\ Len(in.Data.bytes) >= 9
    /\ in.Data.bytes[1] \in {OpTransfer, OpTransferChecked}
    /\ Len(in.Accounts) >= (IF in.Data.bytes[1] = OpTransferChecked THEN 4 ELSE 3)
    /\ \A n \in 1..(IF in.Data.bytes[1] = OpTransferChecked THEN 3 ELSE 2) :
          InRange(in.Accounts[n], accountKeys)

\* the instructions of a transaction in the order of the claim: the
\* top-level ones, then the inner ones unless inner_instructions_none is set
RECURSIVE Flatten(_)
Flatten(groups) ==
    IF groups = <<>> THEN <<>> ELSE Head(groups).Instructions \o Flatten(Tail(groups))

InOrder(alchemyTx) ==
    alchemyTx.Transaction[1].Message[1].Instructions
      \o (IF alchemyTx.Meta[1].InnerInstructionsNone THEN <<>>
          ELSE Flatten(alchemyTx.Meta[1].InnerInstructions))

\* the well-formed instructions of a list, in its order
RECURSIVE Remaining(_, _)
Remaining(instrs, accountKeys) ==
    IF instrs = <<>> THEN <<>>
    ELSE (IF WellFormed(Head(instrs), accountKeys) THEN <<Head(instrs)>> ELSE <<>>)
            \o Remaining(Tail(instrs), accountKeys)

\* the list T holds one transfer for each well-formed instruction of
\* alchemyTx, in order, with that instruction's accounts and amount
TransfersInOrder(T, alchemyTx) ==
    LET keys == alchemyTx.Transaction[1].Message[1].AccountKeys
        R == Remaining(InOrder(alchemyTx), keys)
    IN  /\ Len(T) = Len(R)
        /\ \A n \in 1..Len(T) :
              LET checked == R[n].Data.bytes[1] = OpTransferChecked
              IN  /\ T[n].AmountBytes = SubSeq(R[n].Data.bytes, 2, 9)
                  /\ T[n].FromTokenAccount = KeyAt(keys, R[n].Accounts[1])
                  /\ T[n].ToTokenAccount
                        = KeyAt(keys, R[n].Accounts[IF checked THEN 3 ELSE 2])

\* the token transfers that the step of goroutine t from "checked" hands
\* to the handler; none when it returns without calling the handler
TokensHandedOver(t) ==
    IF handled' = handled THEN <<>>
    ELSE handled'[Len(handled')].event.tx.TokenTransfers

(***************************************************************************)
(* C29.  Token extraction skips an instruction that cannot be read (empty  *)
(* or undecodable data, an opcode other than 3 and 12, too few accounts,   *)
(* fewer than nine bytes of data, an account index out of range) without   *)
(* an error and goes on: the result is the list of the transfers of the    *)
(* remaining well-formed instructions, in order, top-level instructions    *)
(* first and then the inner ones unless inner_instructions_none is set.    *)
(* (Every mint of these transactions is configured.)                       *)
(***************************************************************************)
C29_SkipAndContinue ==
    [][ \A t \in Threads :
          ExtractionStep(t)
          => /\ ret' \in {ret, "nil", "handler error"}
             /\ TransfersInOrder(TokensHandedOver(t), AllSolanaTransactions[job[t].in])
      ]_vars

\* the handler got the transfers of a transaction whose first top-level
\* instruction is skipped: the second one's, then an inner one's
C29_Witness ==
    \E n \in DOMAIN handled :
       LET alchemyTx == AllSolanaTransactions[handled[n].in]
           keys == alchemyTx.Transaction[1].Message[1].AccountKeys
           outer == alchemyTx.Transaction[1].Message[1].Instructions
       IN  /\ handled[n].in \in MultiIndexes
           /\ Len(outer) = 2
           /\ ~WellFormed(outer[1], keys)
           /\ Len(handled[n].event.tx.TokenTransfers) = 2
           /\ handled[n].event.tx.TokenTransfers[1].AmountBytes = AmountTwo
           /\ handled[n].event.tx.TokenTransfers[2].AmountBytes = AmountFour

\* the decimals field read as it is given: a number as itself, a string
\* with the prefix "0x" as hexadecimal, a string of decimal digits as
\* decimal, anything else (or no field) as 18
DecimalsAsGiven(field) ==
    IF field = Nil THEN DefaultDecimals
    ELSE IF "num" \in DOMAIN field[1] THEN field[1].num
    ELSE LET str == field[1].str
         IN  IF HasPrefix0x(str) /\ Len(str) > 2 /\ AllHex(ToLower(SubSeq(str, 3, Len(str))))
             THEN HexNumber(SubSeq(str, 3, Len(str)))
             ELSE IF str # <<>> /\ \A i \in 1..Len(str) : str[i] \in DecDigits
             THEN DecNumber(str)
             ELSE DefaultDecimals

\* a token activity whose amount comes from its value and its decimals
ValueTimesDecimals(activity) ==
    /\ ToLower(activity.Category) \in {CatToken, CatErc20}
    /\ activity.RawContract # Nil
    /\ activity.RawContract[1].RawValue = <<>>
    /\ activity.Value # Nil

(***************************************************************************)
(* C30.  The amount of a token activity without a raw hex value is its     *)
(* value times 10^decimals, where decimals is the payload's decimals field *)
(* read as given: a number n as n, a string with the prefix "0x" as        *)
(* hexadecimal, a plain decimal string such as "18" as 18, and 18 when the *)
(* field is absent or cannot be parsed.                                    *)
(***************************************************************************)
C30_DecimalsAsGiven ==
    \A i \in DOMAIN handled :
       (handled[i].kind = "eth" /\ ValueTimesDecimals(AllEthActivities[handled[i].in]))
       => LET activity == AllEthActivities[handled[i].in]
          IN  handled[i].event.amount
                 = Big(activity.Value[1], DecimalsAsGiven(activity.RawContract[1].Decimals))

(***************************************************************************)
(* C31.  An activity of category erc721 reaches the handler only if its    *)
(* token-id field is present and non-empty: every event the handler was    *)
(* called with for an erc721 activity comes from an activity that has a    *)
(* token id other than the empty string.                                   *)
(***************************************************************************)
HasTokenID(activity) ==
    activity.ERC721TokenID # Nil /\ activity.ERC721TokenID[1] # <<>>

C31_Erc721NeedsTokenID ==
    \A i \in DOMAIN handled :
       (handled[i].kind = "eth"
          /\ ToLower(AllEthActivities[handled[i].in].Category) = CatErc721)
       => HasTokenID(AllEthActivities[handled[i].in])

(***************************************************************************)
(* ProcessActivity with the in-process cache and a handler: the transfer   *)
(* is delivered with its hash written in three ways.  C32 is checked here. *)
(***************************************************************************)
VariantIndexes ==
    (Len(AllEthActivities) - Len(HashVariantActivities) + 1)..Len(AllEthActivities)

CaseIndexes == {1, Lowest(VariantIndexes), Lowest(VariantIndexes) + 1}

InitCase == InitProc /\ cacheType = "memory" /\ handlerSet

NextCase ==
    \/ \E t \in Threads, i \in CaseIndexes : ProcessActivity(t, i)
    \/ \E t \in Threads : MemIsProcessedDelete(t)
    \/ \E t \in Threads : MemIsProcessedTouch(t)
    \/ \E t \in Threads : InvokeHandler(t)
    \/ \E t \in Threads : MarkAndReturn(t)
    \/ cleanupExpired
    \/ Tick

SpecCase == InitCase /\ [][NextCase]_vars

\* a hash without its prefix "0x" or "0X"
Bare(hash) ==
    IF Len(hash) >= 2 /\ hash[1] = "0" /\ hash[2] \in {"x", "X"}
    THEN SubSeq(hash, 3, Len(hash))
    ELSE hash

\* the hashes of a and b differ at most in letter case and in the prefix,
\* and a and b have the same trace address
SameHashAndTrace(a, b) ==
    /\ ToLower(Bare(a.Hash)) = ToLower(Bare(b.Hash))
    /\ TraceOf(a) = TraceOf(b)

\* the transfer, its sibling with a trace address, and their other spellings
Spellings == {EthActivities[1], EthActivities[2]} \cup Range(HashVariantActivities)

\* the dedup key tells two activities apart exactly when their lower-cased
\* hashes or their trace addresses differ
KeyOfHashAndTrace ==
    \A a, b \in Spellings : SameHashAndTrace(a, b) <=> UniqueID(a) = UniqueID(b)

\* every handler invocation so far succeeded and was for the activity a
OnlyHandled(a) ==
    \A i \in DOMAIN handled :
       handled[i].ok /\ SameHashAndTrace(AllEthActivities[handled[i].in], a)

(***************************************************************************)
(* C32.  The dedup key of an Ethereum activity depends only on its         *)
(* lower-cased hash and its trace address: activities whose hashes differ  *)
(* only in letter case or in the prefix "0x", with the same trace address, *)
(* have the same key.  So, with the in-process cache and deliveries that   *)
(* do not overlap, once the handler has succeeded for one spelling, a      *)
(* delivery of another spelling within the TTL window returns nil without  *)
(* invoking the handler.                                                   *)
(***************************************************************************)
C32_KeyIgnoresCaseAndPrefix ==
    [][ /\ KeyOfHashAndTrace
        /\ \A t \in Threads :
             ( /\ LeavesCheck(t)
               /\ job[t].kind = "eth"
               /\ ~overlap
               /\ OnlyHandled(AllEthActivities[job[t].in])
               /\ \E i \in DOMAIN handled : now <= handled[i].at + TTL24h )
             => (pc'[t] = "idle" /\ ret' = "nil" /\ handled' = handled) ]_vars

\* the transfer was handled and marked; then it was delivered with its hash
\* in upper case and without the prefix, and the cache reported it processed
C32_Witness ==
    /\ ~overlap
    /\ calls = 2
    /\ Len(handled) = 1
    /\ handled[1].in = 1 /\ handled[1].ok
    /\ \E t \in Threads :
         /\ pc[t] = "checked"
         /\ job[t].in = Lowest(VariantIndexes)
         /\ AllEthActivities[job[t].in].Hash # Transfer.Hash
         /\ job[t].key = handled[1].key
         /\ cres[t] = "true"

(***************************************************************************)
(* The lifetime of the in-process cache: NewMemoryCache starts the ticker  *)
(* and the cleanupExpired goroutine; Close stops the ticker and closes the *)
(* stop channel.  The ticker's channel holds at most one tick, and a tick  *)
(* that is in it when the ticker is stopped stays there.                   *)
(***************************************************************************)
MaxOps == 4

\* the sweeper as NewMemoryCache leaves it
NewSweeper == [NoSweeper EXCEPT !.cleanup = "running", !.stop = "open", !.pc = "select"]

\* the ticker puts a tick into its channel, unless one is still there
TickerFires ==
    /\ bg.cleanup = "running"
    /\ ~bg.tick
    /\ ~bg.panicked
    /\ bg' = [bg EXCEPT !.tick = TRUE]
    /\ UNCHANGED <<cacheVars, threadVars, procVars, now, last, recency, hook,
                   client, retry, fill>>

\* cleanupExpired, `case <-c.cleanup.C:` up to c.mu.Lock()
SweeperReceives ==
    /\ bg.pc = "select"
    /\ bg.tick
    /\ ~bg.panicked
    /\ bg' = [bg EXCEPT !.tick = FALSE, !.pc = "lock"]
    /\ UNCHANGED <<cacheVars, threadVars, procVars, now, last, recency, hook,
                   client, retry, fill>>

\* cleanupExpired, `case <-c.stop: return`
SweeperReturns ==
    /\ bg.pc = "select"
    /\ bg.stop = "closed"
    /\ ~bg.panicked
    /\ bg' = [bg EXCEPT !.pc = "returned"]
    /\ UNCHANGED <<cacheVars, threadVars, procVars, now, last, recency, hook,
                   client, retry, fill>>

\* cleanupExpired, from c.mu.Lock() to c.mu.Unlock(): the sweep
SweeperSweeps ==
    /\ bg.pc = "lock"
    /\ ~bg.panicked
    /\ SweepEntries
    /\ bg' = [bg EXCEPT !.pc = "select",
                        !.lateSweeps = IF bg.closes > 0 THEN 1 ELSE 0]
    /\ UNCHANGED <<client, retry, fill>>

(***************************************************************************)
(* MemoryCache.Close on the sweeper: c.cleanup.Stop(); close(c.stop),      *)
(* which panics when the channel is closed already.                        *)
(***************************************************************************)
CloseSweeper(b) ==
    [b EXCEPT !.cleanup = "stopped", !.stop = "closed", !.closes = b.closes + 1,
              !.panicked = (b.stop = "closed")]

\* Cache.Close for the backend held: what it leaves of the cache
CacheClose ==
    /\ bg' = IF cacheType = "memory" THEN CloseSweeper(bg)
             ELSE [bg EXCEPT !.closes = bg.closes + 1]
    /\ IF cacheType = "memory" /\ bg.stop # "closed"
       THEN entries' = <<>> /\ accessOrder' = <<>> /\ recency' = <<>>
       ELSE UNCHANGED <<entries, accessOrder, recency>>
    /\ last' = Step("close", NoKey, 0, FALSE, FALSE)
    /\ UNCHANGED <<maxSize, enableLRU>>

(***************************************************************************)
(* BaseClient.Start, under c.mu, called with a context that is live.       *)
(***************************************************************************)
Start ==
    /\ client.ops < MaxOps
    /\ ~bg.panicked
    /\ client' = IF client.started
                 THEN [client EXCEPT !.res = "client already started",
                                     !.ops = client.ops + 1]
                 ELSE [client EXCEPT !.ctx = "live", !.parent = "live",
                                     !.started = TRUE,
                                     !.starter = IF client.delayed THEN "waiting"
                                                 ELSE client.starter,
                                     !.res = "nil", !.ops = client.ops + 1]
    /\ UNCHANGED <<cacheVars, threadVars, procVars, now, last, recency, hook,
                   bg, retry, fill>>

(***************************************************************************)
(* BaseClient.Stop, under c.mu: cancel, Close, started = false.  A panic   *)
(* in Close leaves Stop before it clears started.                          *)
(***************************************************************************)
Stop ==
    /\ client.ops < MaxOps
    /\ ~bg.panicked
    /\ IF ~client.started
       THEN /\ client' = [client EXCEPT !.res = "nil", !.ops = client.ops + 1]
            /\ UNCHANGED <<cacheVars, last, recency, bg>>
       ELSE /\ CacheClose
            /\ client' = [client EXCEPT !.ctx = "cancelled",
                                        !.started = bg'.panicked,
                                        !.res = IF bg'.panicked THEN "panic" ELSE "nil",
                                        !.ops = client.ops + 1]
    /\ UNCHANGED <<threadVars, procVars, now, hook, retry, fill>>

\* BaseClient.Health
Health ==
    /\ client.ops < MaxOps
    /\ ~bg.panicked
    /\ client' = [client EXCEPT !.res = IF client.started THEN "nil"
                                        ELSE "client not started",
                                !.ops = client.ops + 1]
    /\ UNCHANGED <<cacheVars, threadVars, procVars, now, last, recency, hook,
                   bg, retry, fill>>

\* the caller cancels the context it gave to Start
CancelParent ==
    /\ client.parent = "live"
    /\ ~bg.panicked
    /\ client' = [client EXCEPT !.parent = "cancelled",
                                !.ctx = IF client.ctx = "live" THEN "cancelled"
                                        ELSE client.ctx]
    /\ UNCHANGED <<cacheVars, threadVars, procVars, now, last, recency, hook,
                   bg, retry, fill>>

\* the goroutine of Start: `case <-c.ctx.Done(): return`, or the start delay
\* elapses and it lists the webhooks and backfills
StarterEnds ==
    /\ client.starter = "waiting"
    /\ ~bg.panicked
    /\ \/ client.ctx = "cancelled" /\ client' = [client EXCEPT !.starter = "returned"]
       \/ client' = [client EXCEPT !.starter = "backfilled"]
    /\ UNCHANGED <<cacheVars, threadVars, procVars, now, last, recency, hook,
                   bg, retry, fill>>

\* NewEthereumClient / NewSolanaClient: the cache of newCache, not started
InitClient ==
    /\ cacheType \in {"memory", "redis", "noop"}
    /\ IF cacheType = "memory"
       THEN \E size \in 1..MaxCap, lru \in BOOLEAN : NewMemoryCache(size, lru)
       ELSE NewMemoryCache(0, FALSE)
    /\ bg = IF cacheType = "memory" THEN NewSweeper ELSE NoSweeper
    /\ \E d \in BOOLEAN : client = [NoClient EXCEPT !.cache = cacheType, !.delayed = d]
    /\ handlerSet = FALSE
    /\ now = 0
    /\ InitThreads
    /\ redis = <<>>
    /\ handled = <<>>
    /\ calls = 0
    /\ overlap = FALSE
    /\ last = NoStep
    /\ recency = <<>>
    /\ hook = NoHook
    /\ retry = NoRetry
    /\ fill = NoFill

NextClient ==
    \/ Start
    \/ Stop
    \/ Health
    \/ CancelParent
    \/ StarterEnds
    \/ TickerFires
    \/ SweeperReceives
    \/ SweeperReturns
    \/ SweeperSweeps

SpecClient == InitClient /\ [][NextClient]_vars

(***************************************************************************)
(* C33.  Over any sequence of Start and Stop calls on one client the       *)
(* cache's Close is called at most once, and the client is never started   *)
(* while its cache is closed.                                              *)
(***************************************************************************)
C33_CloseOnce ==
    /\ bg.closes <= 1
    /\ client.started => bg.closes = 0

(***************************************************************************)
(* The in-process cache used directly and then closed: marks and lookups   *)
(* of one key, the clock, the ticker and the sweeper, and one Close made   *)
(* while no other call is in progress.  C34 is checked here.               *)
(***************************************************************************)
Close ==
    /\ bg.closes = 0
    /\ \A t \in Threads : pc[t] = "idle"
    /\ CacheClose
    /\ UNCHANGED <<threadVars, procVars, now, hook, client, retry, fill>>

InitClose ==
    /\ \E size \in 1..MaxCap, lru \in BOOLEAN : NewMemoryCache(size, lru)
    /\ bg = NewSweeper
    /\ now = 0
    /\ InitThreads
    /\ cacheType = "memory"
    /\ redis = <<>>
    /\ handlerSet = TRUE
    /\ handled = <<>>
    /\ calls = 0
    /\ overlap = FALSE
    /\ last = NoStep
    /\ recency = <<>>
    /\ hook = NoHook
    /\ client = NoClient
    /\ retry = NoRetry
    /\ fill = NoFill

NextClose ==
    \/ bg.closes = 0 /\ \E t \in Threads, k \in TTLKeys : CallIsProcessed(t, k)
    \/ bg.closes = 0 /\ \E t \in Threads, k \in TTLKeys, ttl \in TTLs : CallMarkProcessed(t, k, ttl)
    \/ \E t \in Threads : MemIsProcessedDelete(t)
    \/ \E t \in Threads : MemIsProcessedTouch(t)
    \/ Tick
    \/ TickerFires
    \/ SweeperReceives
    \/ SweeperReturns
    \/ SweeperSweeps
    \/ Close

SpecClose == InitClose /\ [][NextClose]_vars

(***************************************************************************)
(* C34.  Close stops the sweeper: once Close has returned, the sweeper     *)
(* executes no further sweep.                                              *)
(***************************************************************************)
C34_NoSweepAfterClose == bg.lateSweeps = 0

\* the sweeper goroutine is scheduled again and again
SpecCloseFair ==
    /\ SpecClose
    /\ WF_vars(SweeperReceives) /\ WF_vars(SweeperReturns) /\ WF_vars(SweeperSweeps)

\* the other half of C34: once Close was called the sweeper returns in the end
SweeperTerminates == (bg.closes > 0) ~> (bg.pc = "returned")

(***************************************************************************)
(* WebhookManager.executeWithRetry, one run.  Durations are whole numbers  *)
(* of time units; Retry.Multiplier is a number of halves (3 is 1.5).       *)
(* Config.Validate asks of the retry configuration only Multiplier > 0.    *)
(***************************************************************************)
MaxAttemptsBound == 3
MaxDuration == 3

\* the multipliers tried, in halves: 0.5, 1, 1.5, 2
MultiplierHalves == {1, 2, 3, 4}

\* RetryConfig values that Validate accepts
RetryConfigs ==
    [MaxAttempts : 0..MaxAttemptsBound, InitialDelay : 0..MaxDuration,
     MaxDelay : 0..MaxDuration, Multiplier : MultiplierHalves]

\* time.Duration(float64(delay) * Multiplier), then the cap at MaxDelay
NextDelay(delay, multiplier, maxDelay) ==
    IF (delay * multiplier) \div 2 > maxDelay THEN maxDelay
    ELSE (delay * multiplier) \div 2

\* `attempt < maxAttempts`, the condition of the loop
LoopGoesOn(attempt, maxAttempts) == attempt < maxAttempts

\* the run ends with the result res
RetryReturns(r, res) == [r EXCEPT !.pc = "done", !.res = res]

\* the call: maxAttempts and delay are read, the loop is entered or not
executeWithRetry ==
    /\ retry.pc = "idle"
    /\ retry' = IF LoopGoesOn(0, retry.MaxAttempts)
                THEN [retry EXCEPT !.pc = "attempt", !.delay = retry.InitialDelay]
                ELSE RetryReturns([retry EXCEPT !.delay = retry.InitialDelay],
                                  "failed after attempts")
    /\ UNCHANGED <<cacheVars, threadVars, procVars, now, last, recency, hook,
                   client, bg, fill>>

\* `err := fn()` and what follows up to the select
Attempt(ok) ==
    /\ retry.pc = "attempt"
    /\ LET r == [retry EXCEPT !.fnCalls = retry.fnCalls + 1,
                              !.fnOk = (retry.fnOk \/ ok),
                              !.afterOk = (retry.afterOk \/ retry.fnOk)]
       IN  retry' = IF ok THEN RetryReturns(r, "nil")
                    ELSE IF retry.attempt < retry.MaxAttempts - 1
                    THEN [r EXCEPT !.pc = "wait",
                                   !.waits = Append(retry.waits, retry.delay)]
                    ELSE IF LoopGoesOn(retry.attempt + 1, retry.MaxAttempts)
                    THEN [r EXCEPT !.attempt = retry.attempt + 1]
                    ELSE RetryReturns([r EXCEPT !.attempt = retry.attempt + 1],
                                      "failed after attempts")
    /\ UNCHANGED <<cacheVars, threadVars, procVars, now, last, recency, hook,
                   client, bg, fill>>

\* `case <-time.After(delay):`, the new delay, and the next turn of the loop.
\* The select takes the case that becomes ready first; when the context was
\* cancelled before the select and the timer is due at once, it takes either.
WaitElapses ==
    /\ retry.pc = "wait"
    /\ \/ retry.ctx = "live"
       \/ retry.delay <= 0 /\ retry.cancelledAt # Len(retry.waits)
    /\ LET r == [retry EXCEPT !.delay = NextDelay(retry.delay, retry.Multiplier,
                                                  retry.MaxDelay),
                              !.attempt = retry.attempt + 1]
       IN  retry' = IF LoopGoesOn(retry.attempt + 1, retry.MaxAttempts)
                    THEN [r EXCEPT !.pc = "attempt"]
                    ELSE RetryReturns(r, "failed after attempts")
    /\ UNCHANGED <<cacheVars, threadVars, procVars, now, last, recency, hook,
                   client, bg, fill>>

\* `case <-ctx.Done(): return ctx.Err()`
WaitCancelled ==
    /\ retry.pc = "wait"
    /\ retry.ctx = "cancelled"
    /\ retry' = RetryReturns(retry, "context canceled")
    /\ UNCHANGED <<cacheVars, threadVars, procVars, now, last, recency, hook,
                   client, bg, fill>>

\* the caller cancels the context of the run
CancelRetry ==
    /\ retry.pc # "done"
    /\ retry.ctx = "live"
    /\ retry' = [retry EXCEPT !.ctx = "cancelled",
                              !.cancelledAt = IF retry.pc = "wait" THEN Len(retry.waits)
                                              ELSE retry.cancelledAt]
    /\ UNCHANGED <<cacheVars, threadVars, procVars, now, last, recency, hook,
                   client, bg, fill>>

\* a WebhookManager with any configuration that Validate accepts
InitRetry ==
    /\ NewMemoryCache(0, FALSE)
    /\ cacheType = "nil"
    /\ handlerSet = FALSE
    /\ now = 0
    /\ InitThreads
    /\ redis = <<>>
    /\ handled = <<>>
    /\ calls = 0
    /\ overlap = FALSE
    /\ last = NoStep
    /\ recency = <<>>
    /\ hook = NoHook
    /\ client = NoClient
    /\ bg = NoSweeper
    /\ fill = NoFill
    /\ \E c \in RetryConfigs :
          retry = [NoRetry EXCEPT !.MaxAttempts = c.MaxAttempts,
                                  !.InitialDelay = c.InitialDelay,
                                  !.MaxDelay = c.MaxDelay,
                                  !.Multiplier = c.Multiplier,
                                  !.pc = "idle", !.ctx = "live"]

NextRetry ==
    \/ executeWithRetry
    \/ \E ok \in BOOLEAN : Attempt(ok)
    \/ WaitElapses
    \/ WaitCancelled
    \/ CancelRetry

SpecRetry == InitRetry /\ [][NextRetry]_vars

(***************************************************************************)
(* C35.  A run of executeWithRetry that has returned called the operation  *)
(* at least once and at most Retry.MaxAttempts times, never after a        *)
(* success, and returned nil exactly when an attempt succeeded; when the   *)
(* context was cancelled during a wait, it returned the context's error    *)
(* without a further attempt.                                              *)
(***************************************************************************)
C35_RetryContract ==
    /\ ~retry.afterOk
    /\ retry.fnOk => retry.pc = "done"
    /\ retry.cancelledAt > 0 =>
          /\ retry.pc \in {"wait", "done"}
          /\ Len(retry.waits) = retry.cancelledAt
          /\ retry.fnCalls = retry.cancelledAt
          /\ retry.pc = "done" => retry.res = "context canceled"
    /\ retry.pc = "done" =>
          /\ retry.fnCalls >= 1
          /\ retry.fnCalls <= retry.MaxAttempts
          /\ retry.res = "nil" <=> retry.fnOk

\* base to the power n
Power(base, n) == IF n = 0 THEN 1 ELSE IF n = 1 THEN base
                  ELSE IF n = 2 THEN base * base ELSE base * base * base

\* the k-th wait is min(MaxDelay, InitialDelay * Multiplier^(k-1)); both
\* sides are taken times 2^(k-1), the multiplier being a number of halves
IsCappedBackoff(wait, k, r) ==
    LET exact == r.InitialDelay * Power(r.Multiplier, k - 1)
        cap == r.MaxDelay * Power(2, k - 1)
    IN  wait * Power(2, k - 1) = IF exact > cap THEN cap ELSE exact

(***************************************************************************)
(* C36.  Every delay executeWithRetry waits between two attempts is at     *)
(* most Retry.MaxDelay, and the k-th wait is                               *)
(* min(MaxDelay, InitialDelay * Multiplier^(k-1)).                         *)
(***************************************************************************)
C36_CappedBackoff ==
    \A k \in DOMAIN retry.waits :
       /\ retry.waits[k] <= retry.MaxDelay
       /\ IsCappedBackoff(retry.waits[k], k, retry)

(***************************************************************************)
(* 64-bit unsigned integers, as four 16-bit limbs, most significant first. *)
(***************************************************************************)
Limb == 256 * 256

\* the uint64 of a small number
U64(n) == <<0, 0, n \div Limb, n % Limb>>

MaxU64 == <<Limb - 1, Limb - 1, Limb - 1, Limb - 1>>

\* a < b
Lt64(a, b) == \E i \in 1..4 : a[i] < b[i] /\ \A j \in 1..(i - 1) : a[j] = b[j]

\* a - b in uint64 arithmetic: modulo 2^64
Sub64(a, b) ==
    LET d4 == a[4] - b[4]
        d3 == a[3] - b[3] - (IF d4 < 0 THEN 1 ELSE 0)
        d2 == a[2] - b[2] - (IF d3 < 0 THEN 1 ELSE 0)
        d1 == a[1] - b[1] - (IF d2 < 0 THEN 1 ELSE 0)
    IN  <<(d1 + Limb) % Limb, (d2 + Limb) % Limb, (d3 + Limb) % Limb, (d4 + Limb) % Limb>>

BlocksPer12Hours == 3600
SafetyMargin == 400
ConfirmationBlocks == 12

(***************************************************************************)
(* eth Backfill: fromBlock, toBlock, and whether the range is skipped      *)
(* (`if fromBlock >= toBlock`).                                            *)
(***************************************************************************)
BlockRange(currentBlock) ==
    LET fromBlock ==
            IF Lt64(U64(BlocksPer12Hours + SafetyMargin + ConfirmationBlocks), currentBlock)
            THEN Sub64(Sub64(currentBlock, U64(BlocksPer12Hours)), U64(SafetyMargin))
            ELSE U64(0)
        toBlock == Sub64(currentBlock, U64(ConfirmationBlocks))
    IN  [fromBlock |-> fromBlock, toBlock |-> toBlock, currentBlock |-> currentBlock,
         skip |-> ~Lt64(fromBlock, toBlock)]

\* what BlockNumber may answer
CurrentBlocks ==
    {U64(0), U64(5), U64(ConfirmationBlocks - 1), U64(ConfirmationBlocks),
     U64(ConfirmationBlocks + 1),
     U64(BlocksPer12Hours + SafetyMargin + ConfirmationBlocks),
     U64(BlocksPer12Hours + SafetyMargin + ConfirmationBlocks + 1),
     U64(Limb * 100), <<0, 1, 0, 0>>, MaxU64}

(***************************************************************************)
(* What the backfills fetch.  Ethereum: AlchemyAssetTransfer records; the  *)
(* first becomes the activity Transfer.  Solana: transactions of the       *)
(* chain, of which the backfill holds the Enhanced record.                 *)
(***************************************************************************)
NoRawContract == [Value |-> <<>>, Address |-> <<>>, Decimal |-> <<>>]

AssetTransfers ==
    << [BlockNum |-> Transfer.BlockNum, Hash |-> Transfer.Hash,
        From |-> Transfer.FromAddress, Value |-> Transfer.Value,
        Category |-> Transfer.Category, RawContract |-> NoRawContract],
       [BlockNum |-> Transfer.BlockNum, Hash |-> TxHashOf("b"),
        From |-> Transfer.FromAddress, Value |-> Some(0),
        Category |-> Transfer.Category, RawContract |-> NoRawContract] >>

\* the address every Backfill call is made with
BackfillAddressOf == Transfer.ToAddress

\* processHistoricalTransfer: the decimals it sets, decimal first, then hex
DecimalOf(str) ==
    IF str = <<>> THEN Nil
    ELSE IF Atoi(str) # Nil THEN Some([num |-> Atoi(str)[1]])
    ELSE IF ParseInt16(TrimPrefix0x(str)) # Nil
    THEN Some([num |-> ParseInt16(TrimPrefix0x(str))[1]])
    ELSE Nil

\* processHistoricalTransfer: the AlchemyActivity it builds
ActivityOf(transfer, toAddress) ==
    [BlockNum |-> transfer.BlockNum, Hash |-> transfer.Hash,
     FromAddress |-> NormalizedHash(transfer.From),
     ToAddress |-> NormalizedHash(toAddress),
     Value |-> transfer.Value, ERC721TokenID |-> Nil,
     Category |-> transfer.Category,
     RawContract |-> IF transfer.RawContract.Address # <<>>
                     THEN Some([RawValue |-> transfer.RawContract.Value,
                                Address |-> transfer.RawContract.Address,
                                Decimals |-> DecimalOf(transfer.RawContract.Decimal)])
                     ELSE Nil,
     TypeTraceAddress |-> Nil]

\* the delivery that the n-th fetched item becomes
InputOf(chain, n) ==
    IF chain = "ethereum"
    THEN CHOOSE i \in DOMAIN EthActivities :
            EthActivities[i] = ActivityOf(AssetTransfers[n], BackfillAddressOf)
    ELSE SingleCount + MultiCount + n

\* the key the backfill looks up before it hands the n-th item on
LookupKey(chain, n) ==
    IF chain = "ethereum" THEN NormalizedHash(AssetTransfers[n].Hash)
    ELSE Enhanced(SolanaTransactions[n]).Signature

\* the lists of items a fetch may return
FetchResults == {<<>>, <<1>>, <<1, 2>>}

MaxRuns == 2
MaxAddresses == 1

(***************************************************************************)
(* Backfill.Backfill, step by step.  The call of goroutine t is            *)
(* fill.call[t]; pc "idle" means it is in no call.                         *)
(***************************************************************************)
\* mutant of Acquired: the guard is ignored
Acquired_Always(backfilling) == TRUE

\* atomic.CompareAndSwapInt32(&b.backfilling, 0, 1) succeeds
Acquired(backfilling) == backfilling = 0

\* the call moves on
SetCall(t, c) == fill' = [fill EXCEPT !.call[t] = c]

\* the call returns res; the deferred atomic.StoreInt32(&b.backfilling, 0) runs
Exit(t, res) ==
    fill' = [fill EXCEPT !.call[t] = [NoCall EXCEPT !.res = res], !.backfilling = 0]

\* the call and its guard, with n addresses and a live context
Backfill(t, n) ==
    /\ fill.call[t].pc = "idle"
    /\ pc[t] = "idle"
    /\ fill.runs < MaxRuns
    /\ fill' = IF Acquired(fill.backfilling)
               THEN [fill EXCEPT !.backfilling = 1, !.runs = fill.runs + 1,
                                 !.call[t] = [NoCall EXCEPT !.pc = "entered", !.addrs = n,
                                                            !.ctx = "live"]]
               ELSE [fill EXCEPT !.runs = fill.runs + 1,
                                 !.call[t] = [NoCall EXCEPT !.res = "nil"]]
    /\ UNCHANGED <<cacheVars, threadVars, procVars, now, last, recency, hook,
                   client, bg, retry>>

\* from the guard to the loop over the addresses
BackfillPrepare(t) ==
    LET c == fill.call[t]
    IN  /\ c.pc = "entered"
        /\ IF ~fill.ready THEN Exit(t, "not available")
           ELSE IF c.addrs = 0 THEN Exit(t, "nil")
           ELSE IF fill.chain = "solana" THEN SetCall(t, [c EXCEPT !.pc = "address"])
           ELSE \/ Exit(t, "failed to get current block number")
                \/ \E currentBlock \in CurrentBlocks :
                      IF BlockRange(currentBlock).skip THEN Exit(t, "nil")
                      ELSE SetCall(t, [c EXCEPT !.pc = "address",
                                                !.range = BlockRange(currentBlock)])
        /\ UNCHANGED <<cacheVars, threadVars, procVars, now, last, recency, hook,
                       client, bg, retry>>

\* one turn of the loop over the addresses, up to the fetch
BackfillAddress(t) ==
    LET c == fill.call[t]
    IN  /\ c.pc = "address"
        /\ pc[t] = "idle"
        /\ IF c.addrs = 0 THEN Exit(t, "nil")
           ELSE IF c.ctx = "cancelled" THEN Exit(t, "context canceled")
           ELSE \/ SetCall(t, [c EXCEPT !.addrs = c.addrs - 1, !.fetches = 1])
                \/ \E items \in FetchResults :
                      SetCall(t, [c EXCEPT !.pc = "item", !.items = items, !.fetches = 1])
        /\ UNCHANGED <<cacheVars, threadVars, procVars, now, last, recency, hook,
                       client, bg, retry>>

\* b.cache.IsProcessed for the backend held, called by the backfill
FillIsProcessed(t, j) ==
    /\ \/ /\ cacheType = "memory"
          /\ MemIsProcessedRead(t, j)
       \/ /\ cacheType = "redis"
          /\ \E err \in BOOLEAN :
               /\ cres' = [cres EXCEPT ![t] = IF err THEN "error"
                                              ELSE IF RedisExists(j.key) THEN "true"
                                              ELSE "false"]
               /\ last' = Step(IF err THEN "isErr" ELSE "isRead", NoKey, 0, FALSE, FALSE)
          /\ pc' = [pc EXCEPT ![t] = "prechecked"]
          /\ job' = [job EXCEPT ![t] = j]
          /\ UNCHANGED <<cacheVars, recency, now>>
       \/ /\ cacheType \in {"noop", "nil"}
          /\ cres' = [cres EXCEPT ![t] = IF cacheType = "noop" THEN NoOpIsProcessed(j.key)
                                         ELSE "false"]
          /\ pc' = [pc EXCEPT ![t] = "prechecked"]
          /\ job' = [job EXCEPT ![t] = j]
          /\ UNCHANGED <<cacheVars, recency, now, last>>
    /\ UNCHANGED <<hres, ret, procVars>>

\* one turn of the loop over the fetched items, up to the cache lookup
BackfillItem(t) ==
    LET c == fill.call[t]
    IN  /\ c.pc = "item"
        /\ pc[t] = "idle"
        /\ IF c.items = <<>>
           THEN /\ SetCall(t, [c EXCEPT !.pc = "address", !.addrs = c.addrs - 1])
                /\ UNCHANGED <<cacheVars, threadVars, procVars, now, last, recency>>
           ELSE IF c.ctx = "cancelled"
           THEN /\ Exit(t, "context canceled")
                /\ UNCHANGED <<cacheVars, threadVars, procVars, now, last, recency>>
           ELSE /\ SetCall(t, [c EXCEPT !.pc = "check"])
                /\ FillIsProcessed(t, [kind |-> "fill",
                                       key |-> LookupKey(fill.chain, Head(c.items)),
                                       in |-> Head(c.items), ctx |-> c.ctx])
        /\ UNCHANGED <<hook, client, bg, retry>>

\* `if err == nil && processed { skippedCount++; continue }`
BackfillChecked(t) ==
    LET c == fill.call[t]
    IN  /\ c.pc = "check"
        /\ pc[t] = "prechecked"
        /\ pc' = [pc EXCEPT ![t] = "idle"]
        /\ job' = [job EXCEPT ![t] = NoJob]
        /\ cres' = [cres EXCEPT ![t] = "none"]
        /\ SetCall(t, IF cres[t] = "true"
                      THEN [c EXCEPT !.pc = "item", !.items = Tail(c.items)]
                      ELSE [c EXCEPT !.pc = "process"])
        /\ UNCHANGED <<cacheVars, hres, ret, procVars, now, last, recency, hook,
                       client, bg, retry>>

\* processHistoricalTransfer, or convertToAlchemyTx and ProcessTransaction:
\* the item is handed to the processor, whose error is only logged
BackfillProcess(t) ==
    LET c == fill.call[t]
    IN  /\ c.pc = "process"
        /\ IF fill.chain = "ethereum"
           THEN ProcessActivityWith(t, InputOf(fill.chain, Head(c.items)), c.ctx)
           ELSE ProcessTransactionWith(t, InputOf(fill.chain, Head(c.items)), c.ctx)
        /\ SetCall(t, [c EXCEPT !.pc = "item", !.items = Tail(c.items)])
        /\ UNCHANGED <<hook, client, bg, retry>>

\* the caller cancels the context of the call
CancelFill(t) ==
    /\ fill.call[t].pc # "idle"
    /\ fill.call[t].ctx = "live"
    /\ SetCall(t, [fill.call[t] EXCEPT !.ctx = "cancelled"])
    /\ UNCHANGED <<cacheVars, threadVars, procVars, now, last, recency, hook,
                   client, bg, retry>>

\* eth.NewBackfill or solana.NewBackfill over a processor with a handler
InitFill ==
    /\ cacheType \in {"memory", "redis", "noop"}
    /\ IF cacheType = "memory"
       THEN \E lru \in BOOLEAN : NewMemoryCache(MaxCap, lru)
       ELSE NewMemoryCache(0, FALSE)
    /\ handlerSet = TRUE
    /\ now = 0
    /\ InitThreads
    /\ redis = <<>>
    /\ handled = <<>>
    /\ calls = 0
    /\ overlap = FALSE
    /\ last = NoStep
    /\ recency = <<>>
    /\ hook = NoHook
    /\ client = NoClient
    /\ bg = NoSweeper
    /\ retry = NoRetry
    /\ \E chain \in {"ethereum", "solana"}, ready \in BOOLEAN :
          fill = [NoFill EXCEPT !.chain = chain, !.ready = ready]

NextFill ==
    \/ \E t \in Threads, n \in 0..MaxAddresses : Backfill(t, n)
    \/ \E t \in Threads : BackfillPrepare(t)
    \/ \E t \in Threads : BackfillAddress(t)
    \/ \E t \in Threads : BackfillItem(t)
    \/ \E t \in Threads : BackfillChecked(t)
    \/ \E t \in Threads : BackfillProcess(t)
    \/ \E t \in Threads : CancelFill(t)
    \/ \E t \in Threads : MemIsProcessedTouch(t)
    \/ \E t \in Threads : InvokeHandler(t)
    \/ \E t \in Threads : MarkAndReturn(t)

SpecFill == InitFill /\ [][NextFill]_vars

\* the goroutines whose Backfill call is past the guard
PastGuard == {t \in Threads : fill.call[t].pc # "idle"}

(***************************************************************************)
(* C37.  Backfill is single-flight per instance.  At most one call is past *)
(* the guard at a time; the guard is held exactly while a call is past it, *)
(* so it is released on every return (success, error, cancellation) and a  *)
(* later call can run; and a call that finds another in progress returns   *)
(* nil at once: it fetches nothing, hands nothing to the processor, and    *)
(* leaves the running call, the cache and the handler untouched.           *)
(***************************************************************************)
C37_SingleFlight ==
    [][ /\ Cardinality(PastGuard') <= 1
        /\ fill'.backfilling = 1 <=> PastGuard' # {}
        /\ (fill'.runs = fill.runs + 1 /\ PastGuard # {})
           => /\ \A t \in PastGuard : fill'.call[t] = fill.call[t]
              /\ \A t \in Threads \ PastGuard :
                    /\ fill'.call[t].pc = "idle"
                    /\ fill'.call[t].res \in {fill.call[t].res, "nil"}
              /\ UNCHANGED <<cacheVars, threadVars, procVars>> ]_vars

\* a call has fetched and is at work; the call made meanwhile by the other
\* goroutine has returned nil
C37_Witness ==
    /\ fill.runs = 2
    /\ fill.backfilling = 1
    /\ \E t \in Threads :
         /\ fill.call[t].pc = "item"
         /\ fill.call[t].fetches = 1
         /\ \A u \in Threads \ {t} : fill.call[u] = [NoCall EXCEPT !.res = "nil"]
    /\ overlap = FALSE

(***************************************************************************)
(* C38.  Whatever the current block number is, the range the Ethereum      *)
(* backfill queries has fromBlock < toBlock <= currentBlock, with          *)
(* toBlock = currentBlock - 12: it never ends above the current block.     *)
(***************************************************************************)
C38_RangeBelowCurrent ==
    \A t \in Threads :
       LET r == fill.call[t].range
       IN  ~r.skip =>
              /\ Lt64(r.fromBlock, r.toBlock)
              /\ ~Lt64(r.currentBlock, r.toBlock)
              /\ r.toBlock = Sub64(r.currentBlock, U64(ConfirmationBlocks))

(***************************************************************************)
(* C40.  The Solana backfill forwards historical transfers: when Backfill  *)
(* hands a fetched transaction in which a native or token transfer         *)
(* happened, and which the cache did not report processed, to the          *)
(* processor, the processor does not return before the handler was         *)
(* invoked for its signature.                                              *)
(***************************************************************************)
HistoricalHasTransfer(n) ==
    \E processedTx \in ProcessedTransactions(SolanaTransactions[n]) :
       Len(processedTx.NativeTransfers) > 0 \/ Len(processedTx.TokenTransfers) > 0

C40_SolanaBackfillForwards ==
    [][ \A t \in Threads :
          (/\ fill.chain = "solana"
           /\ fill.call[t].pc = "process"
           /\ fill'.call[t].pc = "item"
           /\ HistoricalHasTransfer(Head(fill.call[t].items))
           /\ pc'[t] = "idle")
          => \E i \in DOMAIN handled' :
                handled'[i].key = LookupKey("solana", Head(fill.call[t].items)) ]_vars

(***************************************************************************)
(* C39.  For a request that passed the signature check and parsed, every   *)
(* activity or transaction of the payload is passed to the processor       *)
(* exactly once, in payload order, also after an earlier one returned an   *)
(* error, and the response is 200 OK whether or not any of them failed:    *)
(* a request that is served starts with its whole payload pending; the     *)
(* pending list only ever loses its head, in a step that hands exactly     *)
(* that item to the processor; the processor is called in no other step;   *)
(* and the request is answered only once nothing is pending, with 200.     *)
(***************************************************************************)
C39_EveryItemDispatched ==
    [][ /\ \A t \in Threads :
             LET c == hook.conn[t]
                 d == hook'.conn[t]
             IN  /\ (~c.serving /\ d.serving)
                    => /\ d.pending = d.req.body.items
                       /\ d.req.body.json = "ok"
                       /\ Verify(hook.secret, d.req.body, d.req.signature) = "nil"
                 /\ (c.serving /\ d.serving)
                    => /\ d.req = c.req
                       /\ d.pending # c.pending
                          => /\ c.pending # <<>>
                             /\ d.pending = Tail(c.pending)
                             /\ calls' = calls + 1
                             /\ pc[t] = "idle"
                             /\ pc'[t] # "idle" => job'[t].in = Head(c.pending)
                 /\ (c.serving /\ ~d.serving)
                    => /\ c.pending = <<>>
                       /\ hook'.status = 200
        /\ calls' # calls
           => \E t \in Threads : /\ hook.conn[t].serving
                                 /\ hook'.conn[t].pending # hook.conn[t].pending ]_vars

\* a request with two activities was answered 200 after the handler failed
\* for the first and was still called for the second
C39_Witness ==
    /\ Len(handled) = 2
    /\ handled[1].in = 1 /\ ~handled[1].ok
    /\ handled[2].in = 2
    /\ calls = 2
    /\ ret = "handler error"
    /\ hook.status = 200
    /\ \A t \in Threads : ~hook.conn[t].serving

=============================================================================
